---- MODULE Spec2Model ----
(***************************************************************************)
(* A model of the topomind agent kernel: tool registry, connector manager, *)
(* argument / output validators, the ToolExecutor retry loop and the Agent *)
(* turn loop.                                                              *)
(*                                                                         *)
(* Python values are modelled by their type tag and a small payload.       *)
(* Floats in [0,1] (stability, confidence) are kept in tenths.             *)
(***************************************************************************)
EXTENDS Integers, Naturals, Sequences, FiniteSets, TLC

(***************************************************************************)
(* Bounds of the model                                                     *)
(***************************************************************************)
\* largest max_retries a registered tool contract declares
MaxRetries == 1

\* largest latency (ms) the monotonic clock can report for one call
MaxLatency == 1

\* handle_query calls in a session
MaxTurns == 1

\* steps in a plan
MaxPlanSteps == 3

\* whole seconds between two reliability records of one tool
MaxElapsed == 1

\* graph turns, ingested observations, nodes and edges added one by one, and
\* the size of a restored graph, in a session on the memory alone
MaxGraphTurn == 4

MaxIngests == 3

MaxNodes == 2

MaxEdges == 1

\* nodes added one by one, and graph turns, in a session on the analyzer
MaxAdded == 3

MaxAge == 2

MaxLoaded == 28

\* samples the reliability tracker holds before a session on it stops
MaxSamples == 6

\* handle_query calls of a long session
MaxSessionTurns == 47

\* occurrences registered directly on the scorer, for each node
MaxCounted == 1

\* record_execution calls of a session on AgentState
MaxRecorded == 7

\* threads calling the registry and the connector manager at once
MaxThreads == 3

(***************************************************************************)
(* Python values                                                           *)
(***************************************************************************)
Atom(ty, n) == [ty |-> ty, n |-> n]

Elem(ty, n, el) == [ty |-> ty, n |-> n, el |-> el]

NoItems == [k \in {} |-> Elem("NoneType", 0, <<>>)]

PyVal(ty, n, el, items) == [ty |-> ty, n |-> n, el |-> el, items |-> items]

PyNone == PyVal("NoneType", 0, <<>>, NoItems)

PyStr(n) == PyVal("str", n, <<>>, NoItems)

PyDict(items) == PyVal("dict", 0, <<>>, items)

EStr(n) == Elem("str", n, <<>>)

EInt(n) == Elem("int", n, <<>>)

EBool(n) == Elem("bool", n, <<>>)

\* isinstance(value, cls): bool is a subclass of int in Python
IsInstance(v, cls) ==
    \/ v.ty = cls
    \/ cls = "int" /\ v.ty = "bool"

(***************************************************************************)
(* Messages carried by exceptions and by ToolResult.error                  *)
(***************************************************************************)
Msg(prefix, kind, fields, text) ==
    [prefix |-> prefix, kind |-> kind, fields |-> fields, text |-> text]

NoError == Msg("", "None", {}, "")

\* a raised exception: its class and str(e)
Exc(cls, msg) == [cls |-> cls, msg |-> msg]

NoExc == Exc("none", NoError)

\* "except <handler>" catches an exception of class cls
Catches(handler, cls) ==
    /\ cls # "none"
    /\ \/ handler = cls
       \/ handler = "Exception"

(***************************************************************************)
(* Tool contracts (tools/schema.py)                                        *)
(***************************************************************************)
\* a type spec written as a string, e.g. "string", "int?", "number"
StrSpec(base, opt) == [kind |-> "str", base |-> base, opt |-> opt]

\* a type spec given as a Python type object
TypeSpec(cls) == [kind |-> "type", base |-> cls, opt |-> FALSE]

Field(key, spec) == [key |-> key, spec |-> spec]

SchemaKeys(schema) == {schema[i].key : i \in 1..Len(schema)}

Tool(name, connector_name, input_schema, output_schema, execution_model, version, retryable, max_retries) ==
    [name |-> name, connector_name |-> connector_name,
     input_schema |-> input_schema, output_schema |-> output_schema,
     execution_model |-> execution_model, version |-> version,
     timeout_seconds |-> 10, retryable |-> retryable,
     max_retries |-> max_retries]

\* Tool.__post_init__: the contracts the constructor accepts
ToolPostInitOk(t) ==
    /\ t.name # ""
    /\ t.connector_name # ""
    /\ t.timeout_seconds > 0
    /\ t.max_retries >= 0
    /\ ~(~t.retryable /\ t.max_retries > 0)

(***************************************************************************)
(* ArgumentValidator (tools/validator.py)                                  *)
(***************************************************************************)
\* the "mapping" table of both validators: spec string -> Python class
SimpleTypes == {"string", "int", "float", "bool", "dict", "list"}

ClassOf(base) ==
    CASE base = "string" -> "str"
      [] base = "int" -> "int"
      [] base = "float" -> "float"
      [] base = "bool" -> "bool"
      [] base = "dict" -> "dict"
      [] base = "list" -> "list"
      [] OTHER -> "object"

ArgStringTypeMatch(expected, value) ==
    IF expected \in SimpleTypes
    THEN IsInstance(value, ClassOf(expected))
    ELSE IF expected = "list[number]"
    THEN /\ value.ty = "list"
         /\ \A i \in 1..Len(value.el) :
                IsInstance(value.el[i], "int") \/ IsInstance(value.el[i], "float")
    ELSE IF expected = "list[string]"
    THEN /\ value.ty = "list"
         /\ \A i \in 1..Len(value.el) : IsInstance(value.el[i], "str")
    ELSE TRUE

\* expected is the spec after rstrip("?")
ArgMatchesType(spec, value) ==
    CASE spec.kind = "str" -> ArgStringTypeMatch(spec.base, value)
      [] spec.kind = "type" -> IsInstance(value, spec.base)
      [] OTHER -> TRUE

ArgIsOptional(spec) == spec.kind = "str" /\ spec.opt

ArgMissing(schema, args) ==
    {schema[i].key : i \in {j \in 1..Len(schema) :
        ~ArgIsOptional(schema[j].spec) /\ schema[j].key \notin DOMAIN args.items}}

ArgUnknown(schema, args) == (DOMAIN args.items) \ SchemaKeys(schema)

ArgBadType(schema, args) ==
    {i \in 1..Len(schema) :
        /\ schema[i].key \in DOMAIN args.items
        /\ ~ArgMatchesType(schema[i].spec, args.items[schema[i].key])}

MinOf(S) == CHOOSE i \in S : \A j \in S : i <= j

\* ArgumentValidator.validate: the exception it raises, NoExc when it returns args
ArgValidate(schema, args) ==
    IF args.ty # "dict"
    THEN Exc("ArgumentValidationError", Msg("", "not_a_dictionary", {}, ""))
    ELSE IF ArgMissing(schema, args) # {}
    THEN Exc("ArgumentValidationError",
             Msg("", "missing_required", ArgMissing(schema, args), ""))
    ELSE IF ArgUnknown(schema, args) # {}
    THEN Exc("ArgumentValidationError",
             Msg("", "unknown_arguments", ArgUnknown(schema, args), ""))
    ELSE IF ArgBadType(schema, args) # {}
    THEN LET i == MinOf(ArgBadType(schema, args))
         IN Exc("ArgumentValidationError",
                Msg("", "wrong_type", {schema[i].key},
                    args.items[schema[i].key].ty))
    ELSE NoExc

(***************************************************************************)
(* OutputValidator (tools/output_validator.py)                             *)
(***************************************************************************)
\* "ok", "mismatch", or the spec itself is rejected ("unknown_spec")
OutStringTypeMatch(spec, value) ==
    IF spec.opt \/ spec.base \notin (SimpleTypes \cup {"list[number]", "list[string]"})
    THEN "unknown_spec"
    ELSE IF spec.base = "int"
    THEN IF IsInstance(value, "int") /\ ~IsInstance(value, "bool")
         THEN "ok" ELSE "mismatch"
    ELSE IF spec.base = "float"
    THEN IF IsInstance(value, "float") \/ IsInstance(value, "int")
         THEN "ok" ELSE "mismatch"
    ELSE IF spec.base \in SimpleTypes
    THEN IF IsInstance(value, ClassOf(spec.base)) THEN "ok" ELSE "mismatch"
    ELSE IF spec.base = "list[number]"
    THEN IF /\ value.ty = "list"
            /\ \A i \in 1..Len(value.el) :
                  /\ IsInstance(value.el[i], "int") \/ IsInstance(value.el[i], "float")
                  /\ ~IsInstance(value.el[i], "bool")
         THEN "ok" ELSE "mismatch"
    ELSE IF value.ty = "list"
            /\ \A i \in 1..Len(value.el) : IsInstance(value.el[i], "str")
         THEN "ok" ELSE "mismatch"

OutMatchesType(spec, value) ==
    CASE spec.kind = "str" -> OutStringTypeMatch(spec, value)
      [] spec.kind = "type" ->
            IF IsInstance(value, spec.base) THEN "ok" ELSE "mismatch"
      [] OTHER -> "unsupported_spec"

OutMissing(schema, output) == SchemaKeys(schema) \ DOMAIN output.items

OutUnknown(schema, output) == (DOMAIN output.items) \ SchemaKeys(schema)

OutBadType(schema, output) ==
    {i \in 1..Len(schema) :
        OutMatchesType(schema[i].spec, output.items[schema[i].key]) # "ok"}

\* OutputValidator.validate: the exception it raises, NoExc when it returns output
OutValidate(schema, output) ==
    IF output.ty # "dict"
    THEN Exc("OutputValidationError", Msg("", "not_a_dictionary", {}, ""))
    ELSE IF OutMissing(schema, output) # {}
    THEN Exc("OutputValidationError",
             Msg("", "missing_fields", OutMissing(schema, output), ""))
    ELSE IF OutUnknown(schema, output) # {}
    THEN Exc("OutputValidationError",
             Msg("", "unexpected_fields", OutUnknown(schema, output), ""))
    ELSE IF OutBadType(schema, output) # {}
    THEN LET i == MinOf(OutBadType(schema, output))
         IN Exc("OutputValidationError",
                Msg("", OutMatchesType(schema[i].spec, output.items[schema[i].key]),
                    {schema[i].key}, output.items[schema[i].key].ty))
    ELSE NoExc

(***************************************************************************)
(* ToolResult (models/tool_result.py); stability_signal is kept in tenths  *)
(***************************************************************************)
Clamp(x, lo, hi) == IF x < lo THEN lo ELSE IF x > hi THEN hi ELSE x

\* ToolResult(...) followed by __post_init__, which clamps stability_signal
ToolResult(tool_name, tool_version, status, output, error, latency_ms, stability) ==
    [tool_name |-> tool_name, tool_version |-> tool_version, status |-> status,
     output |-> output, error |-> error, latency_ms |-> latency_ms,
     stability_signal |-> Clamp(stability, 0, 10)]

\* no ToolResult has been returned yet
NoResult == ToolResult("", "", "none", PyNone, NoError, 0, 0)

(***************************************************************************)
(* The tool contracts and the inputs the model draws from                  *)
(***************************************************************************)
\* Tool.max_retries default
DefaultMaxRetries == 2

\* the schema of the echo tool (examples/run_agent.py)
EchoSchema ==
    [in  |-> <<Field("text", StrSpec("string", FALSE))>>,
     out |-> <<Field("text", StrSpec("string", FALSE))>>]

\* a schema with an optional input field and two output fields
WideSchema ==
    [in  |-> <<Field("text", StrSpec("string", FALSE)),
               Field("opt", StrSpec("int", TRUE))>>,
     out |-> <<Field("text", StrSpec("string", FALSE)),
               Field("code", StrSpec("string", FALSE))>>]

\* how a contract routes execution: a deterministic connector, the "llm"
\* connector named by execution_model, or both (hybrid)
ExecutionKinds ==
    { [connector_name |-> "local", execution_model |-> "", schema |-> WideSchema],
      [connector_name |-> "llm", execution_model |-> "mistral", schema |-> EchoSchema],
      [connector_name |-> "local", execution_model |-> "mistral", schema |-> EchoSchema],
      [connector_name |-> "local", execution_model |-> "mistral", schema |-> WideSchema] }

RetryPolicies ==
    {[retryable |-> FALSE, max_retries |-> 0]}
    \cup {[retryable |-> TRUE, max_retries |-> k] : k \in 0..MaxRetries}

\* contracts registered under the name "echo", as the /register-tool endpoint
\* accepts them
EchoTools ==
    {Tool("echo", k.connector_name, k.schema.in, k.schema.out, k.execution_model,
          "1.0.0", r.retryable, r.max_retries) :
        k \in ExecutionKinds, r \in RetryPolicies}

\* tools/builtin/reason_tool.py
ReasonTool ==
    Tool("reason", "llm",
         <<Field("question", StrSpec("string", FALSE))>>,
         <<Field("answer", StrSpec("string", FALSE))>>,
         "", "1.0.0", TRUE, DefaultMaxRetries)

Catalog == {t \in EchoTools \cup {ReasonTool} : ToolPostInitOk(t)}

NoTool == Tool("", "", <<>>, <<>>, "", "", FALSE, 0)

ConnectorNames == {"local", "llm"}

\* the tool names a caller passes to execute
CallNames == {"echo", "reason", "nonexistent_tool"}

Items1(k, v) == [x \in {k} |-> v]

Items2(k1, v1, k2, v2) == [x \in {k1, k2} |-> IF x = k1 THEN v1 ELSE v2]

\* the arguments values a caller passes to execute
ArgChoices ==
    { PyDict(NoItems),
      PyDict(Items1("text", EStr(1))),
      PyDict(Items1("text", EInt(1))),
      PyDict(Items2("text", EStr(1), "opt", EInt(1))),
      PyDict(Items1("question", EStr(1))),
      PyStr(1) }

\* what one connector invocation does: return a raw output or raise
Returns(v) == [kind |-> "return", value |-> v, exc |-> NoExc]

Raises(cls, text) ==
    [kind |-> "raise", value |-> PyNone, exc |-> Exc(cls, Msg("", cls, {}, text))]

\* a value of the declared type of a schema field
SampleOf(spec) == IF spec.base = "int" THEN EInt(1) ELSE EStr(1)

\* an output that satisfies the schema
ValidOutput(schema) ==
    PyDict([k \in SchemaKeys(schema) |->
              SampleOf(schema[CHOOSE i \in 1..Len(schema) : schema[i].key = k].spec)])

RaiseOutcomes == {Raises("TimeoutError", ""), Raises("ConnectionError", "boom")}

\* behaviours of the connector that produces the tool's raw output: a valid
\* output, one omitting a declared field, one with a stray field, one with a
\* wrongly typed field, a non-dict, a timeout, another exception
ConnectorOutcomes(tool) ==
    LET schema == tool.output_schema
        valid == ValidOutput(schema).items
    IN { Returns(PyDict(valid)),
         Returns(PyDict([k \in DOMAIN valid \cup {"bogus"} |->
                           IF k = "bogus" THEN EStr(2) ELSE valid[k]])),
         Returns(PyStr(1)) }
       \cup { Returns(PyDict([k \in DOMAIN valid \ {schema[i].key} |-> valid[k]])) :
                i \in {j \in 1..Len(schema) : j = 1} }
       \cup { Returns(PyDict([valid EXCEPT ![schema[i].key] = EInt(1)])) :
                i \in {j \in 1..Len(schema) : j = 1} }
       \cup RaiseOutcomes

\* behaviours of the "llm" connector in hybrid mode: it generates a dict, a
\* string or something else, or raises
GeneratedOutcomes ==
    { Returns(PyDict(Items1("text", EStr(2)))), Returns(PyStr(1)),
      Returns(PyNone) } \cup RaiseOutcomes

(***************************************************************************)
(* State                                                                   *)
(***************************************************************************)
VARIABLES
    tools,        \* ToolRegistry._tools: the registered contracts, one per name
    connectors,   \* ConnectorManager._status over the registered connector names
    ex,           \* the frame of ToolExecutor.execute: position and locals
    result,       \* the ToolResult the last execute call returned
    raised,       \* the exception that escaped the last execute call, if any
    log,          \* the connector invocations made by the current / last call
    ag,           \* the frame of Agent.handle_query: position and locals
    state,        \* Agent.state, the AgentState of the session
    memory,       \* Agent.memory with the scorer owned by Agent.memory_updater
    reliability,  \* Agent.tool_reliability.stats
    response,     \* what the last handle_query call returned or raised
    trail         \* the calls made on the memory or on the registry directly:
                  \* the last one, with what it returned, and the observations
                  \* ingested so far

execVars == <<tools, connectors, ex, result, raised, log>>

agentVars == <<ag, state, memory, reliability, response, trail>>

vars == <<tools, connectors, ex, result, raised, log,
          ag, state, memory, reliability, response, trail>>

(***************************************************************************)
(* ToolRegistry (tools/registry.py) and ConnectorManager                   *)
(***************************************************************************)
ToolNamesOf(reg) == {t.name : t \in reg}

\* ToolRegistry.get: the KeyError it raises, or NoExc
RegistryGetExc(reg, tool_name) ==
    IF tool_name \in ToolNamesOf(reg)
    THEN NoExc
    ELSE Exc("KeyError", Msg("", "tool_not_registered", {}, tool_name))

RegistryGet(reg, tool_name) == CHOOSE t \in reg : t.name = tool_name

\* a get that hands out inactive connectors too
ConnectorGetExcIgnoringStatus(conns, name) ==
    IF name \notin DOMAIN conns
    THEN Exc("KeyError", Msg("", "connector_not_registered", {}, name))
    ELSE NoExc

\* ConnectorManager.get: the exception it raises, or NoExc
ConnectorGetExc(conns, name) ==
    IF name \notin DOMAIN conns
    THEN Exc("KeyError", Msg("", "connector_not_registered", {}, name))
    ELSE IF conns[name] # "active"
    THEN Exc("RuntimeError", Msg("", "connector_inactive", {}, name))
    ELSE NoExc

\* a schema as the dict it is: the order of its keys dropped
SchemaDict(schema) ==
    [k \in SchemaKeys(schema) |->
        (CHOOSE i \in 1..Len(schema) : schema[i].key = k)]

\* a hash of the contract as written, the keys of the schemas in their order
ContractHashUnsorted(tool) == tool

\* Tool.contract_hash: sha256 of json.dumps(to_dict(), sort_keys=True), taken
\* as one-to-one on the canonical text
ContractHash(tool) ==
    [tool EXCEPT !.input_schema =
                    [k \in SchemaKeys(@) |-> @[SchemaDict(@)[k]].spec],
                 !.output_schema =
                    [k \in SchemaKeys(@) |-> @[SchemaDict(@)[k]].spec]]

\* ToolRegistry.register_or_update: what it returns
RegisterOrUpdateStatus(reg, tool) ==
    IF tool.name \notin ToolNamesOf(reg) THEN "registered"
    ELSE IF ContractHash(RegistryGet(reg, tool.name)) = ContractHash(tool)
    THEN "unchanged"
    ELSE "updated"

\* ToolRegistry.register_or_update: the registry it leaves
RegisterOrUpdate(reg, tool) ==
    IF RegisterOrUpdateStatus(reg, tool) = "unchanged" THEN reg
    ELSE {t \in reg : t.name # tool.name} \cup {tool}

\* ToolRegistry.register
Register(tool) ==
    /\ tool.name \notin ToolNamesOf(tools)
    /\ tools' = tools \cup {tool}
    /\ UNCHANGED <<connectors, ex, result, raised, log>>

\* ConnectorManager.register
ConnectorRegister(name) ==
    /\ name \notin DOMAIN connectors
    /\ connectors' = [n \in DOMAIN connectors \cup {name} |->
                        IF n = name THEN "active" ELSE connectors[n]]
    /\ UNCHANGED <<tools, ex, result, raised, log>>

\* ConnectorManager.undeploy
Undeploy(name) ==
    /\ name \in DOMAIN connectors
    /\ connectors' = [connectors EXCEPT ![name] = "inactive"]
    /\ UNCHANGED <<tools, ex, result, raised, log>>

\* ConnectorManager.deploy
Deploy(name) ==
    /\ name \in DOMAIN connectors
    /\ connectors' = [connectors EXCEPT ![name] = "active"]
    /\ UNCHANGED <<tools, ex, result, raised, log>>

(***************************************************************************)
(* ToolExecutor (tools/executor.py)                                        *)
(***************************************************************************)
\* index of the first except clause that catches cls, 0 when none does
HandlerIndex(handlers, cls) ==
    IF \E i \in 1..Len(handlers) : Catches(handlers[i], cls)
    THEN MinOf({i \in 1..Len(handlers) : Catches(handlers[i], cls)})
    ELSE 0

\* a resolution block that catches KeyError only
ResolveHandlersKeyErrorOnly == <<"KeyError">>

\* except clauses around tool / connector resolution
ResolveHandlers == <<"KeyError", "Exception">>

\* an argument validation block that treats the error as any other exception
ArgHandlersNone == <<>>

\* except clauses around argument validation
ArgHandlers == <<"ArgumentValidationError">>

\* except clause around the lookup of the "llm" connector
LlmLookupHandlers == <<"KeyError">>

\* an attempt loop without the OutputValidationError clause
AttemptHandlersNoOutputClause == <<"TimeoutError", "Exception">>

\* except clauses of the try block inside the attempt loop
AttemptHandlers == <<"OutputValidationError", "TimeoutError", "Exception">>

WithPrefix(prefix, msg) == [msg EXCEPT !.prefix = prefix]

\* an attempt budget that is one too large
MaxAttemptsOffByOne(tool) == tool.max_retries + 2

MaxAttempts(tool) == IF tool.retryable THEN tool.max_retries + 1 ELSE 1

\* a stability that ignores the attempt index
StabilityConstant(attempt) == 10

\* stability = 1.0 - attempt * 0.1, in tenths
Stability(attempt) == 10 - attempt

SuccessResult(tool_name, tool_version, output, latency, stability) ==
    ToolResult(tool_name, tool_version, "success", output, NoError, latency,
               Clamp(stability, 0, 10))

\* a failure result that keeps a neutral stability signal
FailureResultNeutralSignal(tool_name, tool_version, error, latency) ==
    ToolResult(tool_name, tool_version, "failure", PyNone, error, latency, 5)

FailureResult(tool_name, tool_version, error, latency) ==
    ToolResult(tool_name, tool_version, "failure", PyNone, error, latency, 0)

BlockedResult(tool_name, error) ==
    ToolResult(tool_name, "unknown", "blocked", PyNone, error, 0, 0)

\* no connector has been invoked in the current attempt
NoOutcome == [kind |-> "none", value |-> PyNone, exc |-> NoExc]

\* the outcome of the latest connector invocation of the current attempt, and
\* whether it was asked for generated arguments or for the raw output
Latest(role, out) == [role |-> role, out |-> out]

\* the locals of execute; connector is the name of the connector the
\* resolution block obtained, "" while there is none
IdleFrame ==
    [pc |-> "idle", tool_name |-> "", args0 |-> PyNone, args |-> PyNone,
     tool |-> NoTool, connector |-> "", attempt |-> 0, max_attempts |-> 0,
     last |-> Latest("none", NoOutcome)]

Invocation(conn, args) == [conn |-> conn, args |-> args]

\* "return <ToolResult>" from execute
Return(frame, res) ==
    /\ ex' = [frame EXCEPT !.pc = "idle"]
    /\ result' = res
    /\ raised' = NoExc

\* an exception no except clause catches leaves execute
Escape(frame, exc) ==
    /\ ex' = [frame EXCEPT !.pc = "idle"]
    /\ result' = NoResult
    /\ raised' = exc

\* execute goes on, nothing returned yet
Continue(frame) ==
    /\ ex' = frame
    /\ result' = NoResult
    /\ raised' = NoExc

\* a resolution block that does not look the connector up
ResolveExcToolOnly(reg, conns, tool_name) == RegistryGetExc(reg, tool_name)

\* the exception raised by the resolution block, lines 36-37
ResolveExc(reg, conns, tool_name) ==
    IF RegistryGetExc(reg, tool_name) # NoExc
    THEN RegistryGetExc(reg, tool_name)
    ELSE ConnectorGetExc(conns, RegistryGet(reg, tool_name).connector_name)

\* execute, from its entry to the top of the attempt loop
ExecuteCall(tool_name, args, lat) ==
    /\ ex.pc = "idle"
    /\ log' = <<>>
    /\ UNCHANGED <<tools, connectors>>
    /\ LET frame0 == [IdleFrame EXCEPT
                         !.tool_name = tool_name, !.args0 = args, !.args = args,
                         !.tool = IF RegistryGetExc(tools, tool_name) = NoExc
                                  THEN RegistryGet(tools, tool_name) ELSE NoTool]
           rexc == ResolveExc(tools, connectors, tool_name)
           h == HandlerIndex(ResolveHandlers, rexc.cls)
       IN IF rexc # NoExc
          THEN CASE h = 1 -> Return(frame0, BlockedResult(tool_name, rexc.msg))
                 [] h = 2 -> Return(frame0, BlockedResult(tool_name,
                                        WithPrefix("Registry failure", rexc.msg)))
                 [] OTHER -> Escape(frame0, rexc)
          ELSE LET tool == RegistryGet(tools, tool_name)
                   frame1 == [frame0 EXCEPT !.connector = tool.connector_name,
                                            !.max_attempts = MaxAttempts(tool)]
                   vexc == ArgValidate(RegistryGet(tools, tool_name).input_schema, args)
               IN IF vexc # NoExc
                  THEN IF HandlerIndex(ArgHandlers, vexc.cls) = 1
                       THEN Return(frame1, FailureResult(tool_name, tool.version,
                                       WithPrefix("Invalid arguments", vexc.msg), lat))
                       ELSE Escape(frame1, vexc)
                  ELSE IF MaxAttempts(tool) <= 0
                  THEN Return(frame1, FailureResult(tool_name, tool.version,
                                  Msg("", "unknown_execution_state", {}, ""), lat))
                  ELSE Continue([frame1 EXCEPT !.pc = "attempt"])

\* a give-up test that fires one attempt early
LastAttemptEarly(attempt, max_attempts) == attempt >= max_attempts - 2

\* "if attempt >= max_attempts - 1"
LastAttempt(attempt, max_attempts) == attempt >= max_attempts - 1

\* after an except clause that only records the error: give up or loop
Retry(frame, error, lat) ==
    IF LastAttempt(frame.attempt, frame.max_attempts)
    THEN Return(frame, FailureResult(frame.tool_name, frame.tool.version, error, lat))
    ELSE IF frame.attempt + 1 < frame.max_attempts
    THEN Continue([frame EXCEPT !.attempt = @ + 1, !.pc = "attempt"])
    ELSE Return(frame, FailureResult(frame.tool_name, frame.tool.version,
                    Msg("", "unknown_execution_state", {}, ""), lat))

\* an exception raised inside the try block of the attempt loop
AfterException(frame, exc, lat) ==
    LET h == HandlerIndex(AttemptHandlers, exc.cls)
    IN CASE h = 1 -> Return(frame, FailureResult(frame.tool_name, frame.tool.version,
                                WithPrefix("Invalid output", exc.msg), lat))
         [] h = 2 -> Retry(frame, Msg("", "timed_out", {}, ""), lat)
         [] h = 3 -> Retry(frame, exc.msg, lat)
         [] OTHER -> Escape(frame, exc)

\* a connector returned raw_output: output validation, then the success result
AfterReturn(frame, raw_output, lat) ==
    LET oexc == IF RegistryGetExc(tools, frame.tool_name) # NoExc
                THEN RegistryGetExc(tools, frame.tool_name)
                ELSE OutValidate(RegistryGet(tools, frame.tool_name).output_schema,
                                 raw_output)
    IN IF oexc = NoExc
       THEN Return(frame, SuccessResult(frame.tool_name, frame.tool.version,
                              raw_output, lat, Stability(frame.attempt)))
       ELSE AfterException(frame, oexc, lat)

\* hybrid mode: the arguments built from the LLM's generated output
HybridArgs(tool, generated) ==
    IF generated.ty = "dict"
    THEN generated
    ELSE IF Len(tool.output_schema) = 1
    THEN PyDict(Items1(tool.output_schema[1].key,
                       Elem(generated.ty, generated.n, generated.el)))
    ELSE generated

\* the behaviours of the first connector an attempt invokes
AttemptOutcomes(tool) ==
    IF tool.execution_model # "" /\ tool.connector_name # "llm"
    THEN GeneratedOutcomes
    ELSE ConnectorOutcomes(tool)

\* one pass through the loop body up to and including its first connector call
Attempt(out, lat) ==
    /\ ex.pc = "attempt"
    /\ UNCHANGED <<tools, connectors>>
    /\ IF ex.tool.execution_model # ""
       THEN LET lexc == ConnectorGetExc(connectors, "llm")
                none == [ex EXCEPT !.last = Latest("none", NoOutcome)]
                gen == [ex EXCEPT !.last = Latest("generated", out)]
                raw == [ex EXCEPT !.last = Latest("raw", out)]
            IN IF lexc # NoExc
               THEN /\ log' = log
                    /\ IF HandlerIndex(LlmLookupHandlers, lexc.cls) = 1
                       THEN Return(none, FailureResult(ex.tool_name, ex.tool.version,
                                       Msg("", "no_llm_connector", {}, ""), lat))
                       ELSE AfterException(none, lexc, lat)
               ELSE /\ log' = Append(log, Invocation("llm", ex.args))
                    /\ IF ex.tool.connector_name = "llm"
                       THEN IF out.kind = "raise"
                            THEN AfterException(raw, out.exc, lat)
                            ELSE AfterReturn(raw, out.value, lat)
                       ELSE IF out.kind = "raise"
                       THEN AfterException(gen, out.exc, lat)
                       ELSE IF out.value.ty \in {"dict", "str"}
                       THEN Continue([gen EXCEPT !.args = HybridArgs(ex.tool, out.value),
                                                 !.pc = "hybrid"])
                       ELSE AfterException(gen,
                                Exc("RuntimeError",
                                    Msg("", "llm_must_return_string_or_dict", {}, "")),
                                lat)
       ELSE LET raw == [ex EXCEPT !.last = Latest("raw", out)]
            IN /\ log' = Append(log, Invocation(ex.tool.connector_name, ex.args))
               /\ IF out.kind = "raise"
                  THEN AfterException(raw, out.exc, lat)
                  ELSE AfterReturn(raw, out.value, lat)

\* hybrid mode, second half of the loop body: the deterministic connector
HybridConnector(out, lat) ==
    /\ ex.pc = "hybrid"
    /\ UNCHANGED <<tools, connectors>>
    /\ log' = Append(log, Invocation(ex.tool.connector_name, ex.args))
    /\ LET raw == [ex EXCEPT !.last = Latest("raw", out)]
       IN IF out.kind = "raise"
          THEN AfterException(raw, out.exc, lat)
          ELSE AfterReturn(raw, out.value, lat)

(***************************************************************************)
(* Plans (planner/plan_model.py, models/tool_call.py)                      *)
(***************************************************************************)
\* ToolCall.__post_init__ clamps the confidence; id and reason carry no logic
ToolCall(tool_name, arguments, confidence) ==
    [kind |-> "ToolCall", tool_name |-> tool_name, arguments |-> arguments,
     confidence |-> Clamp(confidence, 0, 10)]

\* "action" is None
NoAction ==
    [kind |-> "None", tool_name |-> "", arguments |-> PyNone, confidence |-> 0]

\* a bare tool name stored where a ToolCall is expected
NameOnly(tool_name) ==
    [kind |-> "str", tool_name |-> tool_name, arguments |-> PyNone, confidence |-> 0]

\* PlanStep.__post_init__ clamps the confidence
PlanStep(action, confidence) ==
    [action |-> action, confidence |-> Clamp(confidence, 0, 10)]

Plan(steps) == [kind |-> "Plan", steps |-> steps]

\* the planner returned None
NoPlan == [kind |-> "None", steps |-> <<>>]

\* is_empty answering False for every plan
IsEmptyNever(plan) == FALSE

\* Plan.is_empty
IsEmpty(plan) == Len(plan.steps) = 0

(***************************************************************************)
(* AgentState (agent/state.py)                                             *)
(***************************************************************************)
max_recent == 5

NoInput == Elem("NoneType", 0, <<>>)

InitialState ==
    [turn_count |-> 0, last_user_input |-> NoInput, last_plan |-> NoPlan,
     last_tool_call |-> NoAction, last_result |-> NoResult,
     recent_results |-> <<>>]

\* AgentState.new_turn
NewTurn(st, user_input) ==
    [st EXCEPT !.turn_count = @ + 1, !.last_user_input = user_input]

\* AgentState.record_plan
RecordPlan(st, plan) == [st EXCEPT !.last_plan = plan]

\* record_execution evicting the newest result when the ring is full
RecordExecutionEvictingNewest(st, tool_call, res) ==
    LET appended == Append(st.recent_results, res)
    IN [st EXCEPT !.last_tool_call = tool_call,
                  !.last_result = res,
                  !.recent_results = IF Len(appended) > max_recent
                                     THEN SubSeq(appended, 1, max_recent)
                                     ELSE appended]

\* AgentState.record_execution
RecordExecution(st, tool_call, res) ==
    LET appended == Append(st.recent_results, res)
    IN [st EXCEPT !.last_tool_call = tool_call,
                  !.last_result = res,
                  !.recent_results = IF Len(appended) > max_recent
                                     THEN Tail(appended) ELSE appended]

(***************************************************************************)
(* ToolReliability (learning/tool_reliability.py), counts in hundredths    *)
(***************************************************************************)
NoStats == [t \in {} |-> [success |-> 0, fail |-> 0]]

\* x * DECAY ** delta with DECAY = 0.98, delta in whole seconds
RECURSIVE Decayed(_, _)
Decayed(x, delta) ==
    IF delta = 0 THEN x ELSE Decayed((x * 98) \div 100, delta - 1)

\* ToolReliability.record; a tool's first record sees delta = 0
ReliabilityRecord(stats, tool_name, success, delta) ==
    LET known == tool_name \in DOMAIN stats
        old == IF known THEN stats[tool_name] ELSE [success |-> 0, fail |-> 0]
        d == IF known THEN delta ELSE 0
        new == [success |-> Decayed(old.success, d) + (IF success THEN 100 ELSE 0),
                fail |-> Decayed(old.fail, d) + (IF success THEN 0 ELSE 100)]
    IN [t \in DOMAIN stats \cup {tool_name} |->
            IF t = tool_name THEN new ELSE stats[t]]

\* ToolReliability.MIN_SAMPLES, in hundredths of a sample
MIN_SAMPLES == 500

\* a score as the fraction num / den, den > 0
Rat(num, den) == [num |-> num, den |-> den]

RatAdd(a, b) == Rat(a.num * b.den + b.num * a.den, a.den * b.den)

RatSub(a, b) == Rat(a.num * b.den - b.num * a.den, a.den * b.den)

RatMul(a, b) == Rat(a.num * b.num, a.den * b.den)

RatEq(a, b) == a.num * b.den = b.num * a.den

RatLess(a, b) == a.num * b.den < b.num * a.den

Half == Rat(1, 2)

\* the score without the shrinkage: the success ratio at any sample count
ReliabilityScoreRaw(stats, tool_name) ==
    IF tool_name \notin DOMAIN stats THEN Half
    ELSE LET s == stats[tool_name]
             total == s.success + s.fail
         IN IF total > 0 THEN Rat(s.success, total) ELSE Half

\* ToolReliability.score
ReliabilityScore(stats, tool_name) ==
    IF tool_name \notin DOMAIN stats THEN Half
    ELSE LET s == stats[tool_name]
             total == s.success + s.fail
         IN IF total < MIN_SAMPLES
            THEN LET base == IF total > 0 THEN Rat(s.success, total) ELSE Half
                 IN RatAdd(Half, RatMul(RatSub(base, Half), Rat(total, MIN_SAMPLES)))
            ELSE Rat(s.success, total)

(***************************************************************************)
(* Observations and memory (models/observation.py, memory/)                *)
(***************************************************************************)
\* an observation payload: a plain value, or a ToolResult
ValuePayload(v) == [v |-> v, res |-> NoResult]

ResultPayload(res) == [v |-> Elem("ToolResult", 0, <<>>), res |-> res]

\* metadata, timestamp and trace_id are not read by the memory updater
Observation(source, type, payload) ==
    [source |-> source, type |-> type, payload |-> payload]

Node(id, type, value, turn_created) ==
    [id |-> id, type |-> type, value |-> value, turn_created |-> turn_created]

\* MemoryGraph() with a fresh PersistenceScorer; next_id stands for uuid4
EmptyMemory ==
    [turn |-> 0, nodes |-> {}, edges |-> <<>>,
     scores |-> [i \in {} |-> 0], last_seen |-> [i \in {} |-> 0],
     next_id |-> 1]

\* a deduplicator that looks at the value alone
FindExistingByValue(mem, type, value) ==
    LET hits == {n.id : n \in {m \in mem.nodes : m.value = value}}
    IN IF hits = {} THEN 0 ELSE MinOf(hits)

\* MemoryDeduplicator.find_existing: the first match in insertion order, 0 for None
FindExisting(mem, type, value) ==
    LET hits == {n.id : n \in {m \in mem.nodes : m.type = type /\ m.value = value}}
    IN IF hits = {} THEN 0 ELSE MinOf(hits)

\* MemoryGraph.add_node
AddNode(mem, type, value) ==
    [mem EXCEPT !.nodes = @ \cup {Node(mem.next_id, type, value, mem.turn)},
                !.next_id = @ + 1]

\* PersistenceScorer.score / last_seen
Score(mem, id) == IF id \in DOMAIN mem.scores THEN mem.scores[id] ELSE 0

LastSeen(mem, id) == IF id \in DOMAIN mem.last_seen THEN mem.last_seen[id] ELSE -1

\* PersistenceScorer.register_occurrence(node_id): current_turn is None
RegisterOccurrence(mem, id) ==
    [mem EXCEPT !.scores = [i \in DOMAIN mem.scores \cup {id} |->
                               IF i = id THEN Score(mem, id) + 1 ELSE mem.scores[i]]]

\* persisted scorer data: a dict holding "scores" and "last_seen", each a
\* dict (a function from keys to values) or something else
Dict(entries) == [ty |-> "dict", entries |-> entries]

NotADict == [ty |-> "list", entries |-> <<>>]

ScorerData(ty, scores, last_seen) ==
    [ty |-> ty, scores |-> scores, last_seen |-> last_seen]

\* PersistenceScorer.load: the exception it raises, NoExc when it returns
ScorerLoadExc(data) ==
    IF data.ty # "dict"
    THEN Exc("ValueError", Msg("", "persistence_data_must_be_dictionary", {}, ""))
    ELSE IF data.scores.ty # "dict" \/ data.last_seen.ty # "dict"
    THEN Exc("ValueError", Msg("", "invalid_persistence_structure", {}, ""))
    ELSE NoExc

\* an entry check that lets negative values through
EntryKeptUnsigned(k, v) == k.ty = "str" /\ IsInstance(v, "int")

\* the entries the loops of load keep:
\* "if not isinstance(k, str) or not isinstance(v, int) or v < 0: continue"
EntryKept(k, v) == k.ty = "str" /\ IsInstance(v, "int") /\ v.n >= 0

\* one loop of load over a dict: kept entries overwrite, the others are
\* skipped; a string key stands for the node id it spells
LoadEntries(old, entries) ==
    LET kept == {k \in DOMAIN entries : EntryKept(k, entries[k])}
    IN [i \in DOMAIN old \cup {k.n : k \in kept} |->
          IF \E k \in kept : k.n = i
          THEN entries[CHOOSE k \in kept : k.n = i].n
          ELSE old[i]]

\* PersistenceScorer.load: the scorer it leaves
ScorerLoad(mem, data) ==
    IF ScorerLoadExc(data) # NoExc THEN mem
    ELSE [mem EXCEPT !.scores = LoadEntries(@, data.scores.entries),
                     !.last_seen = LoadEntries(@, data.last_seen.entries)]

\* the age MemoryDecay.compute_importance uses
Age(mem, node) ==
    IF LastSeen(mem, node.id) >= 0
    THEN mem.turn - LastSeen(mem, node.id)
    ELSE mem.turn - node.turn_created

\* importance < threshold, importance = sqrt(persistence) - 0.15 * age:
\* 20 * sqrt(persistence) < 20 * threshold + 3 * age
ImportanceBelow(mem, node, threshold) ==
    LET r == 20 * threshold + 3 * Age(mem, node)
    IN r > 0 /\ 400 * Score(mem, node.id) < r * r

\* importance(a) < importance(b), compared without taking roots
ImportanceLess(mem, a, b) ==
    LET pa == Score(mem, a.id)
        pb == Score(mem, b.id)
        d == 3 * (Age(mem, a) - Age(mem, b))
        s == 400 * (pa + pb) - d * d
    IN IF pa = pb THEN 0 < d
       ELSE IF pa > pb THEN d > 0 /\ (s < 0 \/ s * s < 640000 * pa * pb)
       ELSE d >= 0 \/ (s > 0 /\ s * s > 640000 * pa * pb)

\* no structural type protected
PROTECTED_TYPES_None == {}

PROTECTED_TYPES == {"goal", "constraint", "signal"}

MAX_PRUNE_BATCH == 25

Edge(source, target, relation) ==
    [source |-> source, target |-> target, relation |-> relation]

\* MemoryGraph.add_edge: the ends are not looked up
AddEdge(mem, source, target, relation) ==
    [mem EXCEPT !.edges = Append(@, Edge(source, target, relation))]

\* MemoryGraph.new_turn
GraphNewTurn(mem) == [mem EXCEPT !.turn = @ + 1]

\* MemoryGraph.load_state: turn, nodes and edges are replaced, the scorer is
\* not touched; next_id stays ahead of every id in use
LoadState(mem, turn, nodes, edges) ==
    [mem EXCEPT !.turn = turn, !.nodes = nodes, !.edges = edges,
                !.next_id = IF nodes = {} THEN @
                            ELSE LET top == CHOOSE i \in {n.id : n \in nodes} :
                                               \A n \in nodes : n.id <= i
                                 IN IF top >= @ THEN top + 1 ELSE @]

\* what MemoryGraph.remove_nodes returns: the removed nodes, the removed edges
RemovedNodes(mem, ids) == {n \in mem.nodes : n.id \in ids}

RemovedEdges(mem, ids) ==
    SelectSeq(mem.edges, LAMBDA e : e.source \in ids \/ e.target \in ids)

\* remove_nodes dropping only the edges that leave a removed node
RemoveNodesSourceOnly(mem, ids) ==
    [mem EXCEPT !.nodes = {n \in @ : n.id \notin ids},
                !.edges = SelectSeq(@, LAMBDA e : e.source \notin ids)]

\* MemoryGraph.remove_nodes
RemoveNodes(mem, ids) ==
    [mem EXCEPT !.nodes = {n \in @ : n.id \notin ids},
                !.edges = SelectSeq(@, LAMBDA e : e.source \notin ids
                                                 /\ e.target \notin ids)]

\* prune taking the first MAX_PRUNE_BATCH eligible nodes in insertion order
PruneInInsertionOrder(mem, threshold) ==
    LET eligible == {n \in mem.nodes : /\ n.type \notin PROTECTED_TYPES
                                       /\ ImportanceBelow(mem, n, threshold)}
        batch == {n \in eligible :
                    Cardinality({m \in eligible : m.id < n.id}) < MAX_PRUNE_BATCH}
    IN RemoveNodes(mem, {n.id : n \in batch})

\* MemoryForgetting.prune: lowest importance first, ties in insertion order
Prune(mem, threshold) ==
    LET eligible == {n \in mem.nodes : /\ n.type \notin PROTECTED_TYPES
                                       /\ ImportanceBelow(mem, n, threshold)}
        Before(a, b) == \/ ImportanceLess(mem, a, b)
                        \/ ~ImportanceLess(mem, b, a) /\ a.id < b.id
        batch == IF Cardinality(eligible) <= MAX_PRUNE_BATCH
                 THEN eligible
                 ELSE {n \in eligible :
                         Cardinality({m \in eligible : Before(m, n)}) < MAX_PRUNE_BATCH}
    IN RemoveNodes(mem, {n.id : n \in batch})

PRUNE_INTERVAL == 5

PRUNE_THRESHOLD == 0 - 5

\* "if self._graph.current_turn % self.PRUNE_INTERVAL == 0"
PruneDue(mem) == mem.turn % PRUNE_INTERVAL = 0

\* MemoryUpdater.update_from_observation
UpdateFromObservation(mem, obs) ==
    LET existing == FindExisting(mem, obs.type, obs.payload)
        added == IF existing # 0 THEN mem ELSE AddNode(mem, obs.type, obs.payload)
        node_id == IF existing # 0 THEN existing ELSE mem.next_id
        reinforced == RegisterOccurrence(added, node_id)
    IN IF PruneDue(reinforced)
       THEN Prune(reinforced, PRUNE_THRESHOLD)
       ELSE reinforced

\* update_from_observation for each observation of a list, in order
RECURSIVE UpdateFromAll(_, _)
UpdateFromAll(mem, seq) ==
    IF seq = <<>> THEN mem
    ELSE UpdateFromAll(UpdateFromObservation(mem, Head(seq)), Tail(seq))

\* what is kept of the direct calls on the memory: the last call (its name,
\* its ids or threshold, the memory it found and what it returned), and the
\* observations ingested with the graph turn of each
NoReturn == [nodes |-> {}, edges |-> <<>>]

Trail(op, ids, threshold, before, returned, observed) ==
    [op |-> op, ids |-> ids, threshold |-> threshold, before |-> before,
     returned |-> returned, observed |-> observed]

NoTrail == Trail("none", {}, 0, EmptyMemory, NoReturn, <<>>)

(***************************************************************************)
(* PersistenceAnalyzer (stability/persistence.py)                          *)
(***************************************************************************)
\* the nodes of a graph in insertion order (MemoryGraph._nodes is a dict)
RECURSIVE NodesInOrder(_)
NodesInOrder(nodes) ==
    IF nodes = {} THEN <<>>
    ELSE LET first == CHOOSE n \in nodes : \A m \in nodes : n.id <= m.id
         IN <<first>> \o NodesInOrder(nodes \ {first})

\* a value persistent_entities counts: not None, and hashable
Countable(value) == value.v.ty \notin {"NoneType", "dict", "list", "ToolResult"}

\* Counter(values).items(): each distinct value with its number of
\* occurrences, in order of first occurrence
RECURSIVE CounterItems(_)
CounterItems(values) ==
    IF values = <<>> THEN <<>>
    ELSE LET n == Len(values)
             before == CounterItems(SubSeq(values, 1, n - 1))
             v == values[n]
         IN IF \E i \in 1..Len(before) : before[i].value = v
            THEN [i \in 1..Len(before) |->
                    IF before[i].value = v
                    THEN [before[i] EXCEPT !.count = @ + 1]
                    ELSE before[i]]
            ELSE Append(before, [value |-> v, count |-> 1])

\* sort key of an item that ignores the value
KeyBeforeByCountOnly(a, b) == a.count > b.count

\* the sort key (-count, value) of item a is smaller than that of item b;
\* counted values are strings, compared as their numbers are
KeyBefore(a, b) ==
    \/ a.count > b.count
    \/ a.count = b.count /\ a.value.v.n < b.value.v.n

\* sorted(items, key=...): a stable sort
RECURSIVE SortedItems(_)
SortedItems(items) ==
    IF items = <<>> THEN <<>>
    ELSE LET n == Len(items)
             sorted == SortedItems(SubSeq(items, 1, n - 1))
             x == items[n]
             k == Cardinality({i \in 1..Len(sorted) : ~KeyBefore(x, sorted[i])})
         IN SubSeq(sorted, 1, k) \o <<x>> \o SubSeq(sorted, k + 1, Len(sorted))

\* PersistenceAnalyzer.persistent_entities over the nodes in insertion order,
\* for threshold >= 1
PersistentEntitiesOf(nodes, turn, threshold, minimum_turn_age) ==
    LET counted == SelectSeq(nodes, LAMBDA n : /\ n.type = "entity"
                                               /\ Countable(n.value)
                                               /\ turn - n.turn_created >= minimum_turn_age)
        values == [i \in 1..Len(counted) |-> counted[i].value]
        kept == SelectSeq(SortedItems(CounterItems(values)),
                          LAMBDA it : it.count >= threshold)
    IN [i \in 1..Len(kept) |-> kept[i].value]

PersistentEntities(mem, threshold, minimum_turn_age) ==
    PersistentEntitiesOf(NodesInOrder(mem.nodes), mem.turn, threshold, minimum_turn_age)

(***************************************************************************)
(* Semantic encoding (memory/semantic_extractor.py, observation_builder.py)*)
(***************************************************************************)
Relation(source, relation, target) ==
    [ok |-> TRUE, source |-> source, relation |-> relation, target |-> target]

\* a relation entry without one of the keys source / relation / target
MalformedRelation == [ok |-> FALSE, source |-> 0, relation |-> 0, target |-> 0]

Semantics(concepts, facts, relations) ==
    [concepts |-> concepts, facts |-> facts, relations |-> relations]

\* SemanticExtractor.extract: what the model answered (possibly three empty
\* lists), or the fallback that stores the text itself as one fact
Extractions(text) ==
    {Semantics(<<>>, <<text>>, <<>>),
     Semantics(<<>>, <<>>, <<>>),
     Semantics(<<EStr(3)>>, <<EStr(4)>>, <<Relation(3, 5, 6)>>),
     Semantics(<<EStr(3)>>, <<>>, <<MalformedRelation>>)}

\* ObservationBuilder.from_reason_result: r["source"] on a malformed relation
FromReasonResultExc(sem) ==
    IF \E i \in 1..Len(sem.relations) : ~sem.relations[i].ok
    THEN Exc("KeyError", Msg("", "relation_key", {}, ""))
    ELSE NoExc

\* ObservationBuilder.from_reason_result: concepts, then facts, then relations
FromReasonResult(sem) ==
    [i \in 1..Len(sem.concepts) |->
        Observation("inference", "concept", ValuePayload(sem.concepts[i]))]
    \o [i \in 1..Len(sem.facts) |->
        Observation("inference", "fact", ValuePayload(sem.facts[i]))]
    \o [i \in 1..Len(sem.relations) |->
        Observation("inference", "relation",
            ValuePayload(Elem("tuple", 0,
                <<Atom("str", sem.relations[i].source),
                  Atom("str", sem.relations[i].relation),
                  Atom("str", sem.relations[i].target)>>)))]

(***************************************************************************)
(* Agent (agent/core.py)                                                   *)
(***************************************************************************)
\* the "tool" entry of a response: a name, or None
OptName(name) == [none |-> FALSE, name |-> name]

NoName == [none |-> TRUE, name |-> ""]

NoResponse ==
    [kind |-> "none", status |-> "", tool |-> NoName, output |-> PyNone,
     error |-> NoError, exc |-> NoExc]

\* Agent._failure_response
FailureResponse(message) ==
    [kind |-> "return", status |-> "failure", tool |-> NoName, output |-> PyNone,
     error |-> message, exc |-> NoExc]

\* Agent._format_response
FormatResponse(res) ==
    IF res = NoResult
    THEN FailureResponse(Msg("", "no_result_produced", {}, ""))
    ELSE [kind |-> "return", status |-> res.status, tool |-> OptName(res.tool_name),
          output |-> res.output, error |-> res.error, exc |-> NoExc]

\* an exception crosses handle_query
RaisedResponse(exc) ==
    [kind |-> "raise", status |-> "", tool |-> NoName, output |-> PyNone,
     error |-> NoError, exc |-> exc]

\* one finished _execute_step call of the current turn
Executed(step, tool_name, res) ==
    [step |-> step, tool_name |-> tool_name, result |-> res]

\* no turn in progress; planner_calls, executor_calls and executed record the
\* calls handle_query has made in the current / last turn, ingested the
\* observations it has passed to update_from_observation
IdleAgent ==
    [pc |-> "idle", user_input |-> NoInput, plan |-> NoPlan, step |-> 0,
     previous_result |-> NoResult, planner_calls |-> 0, executor_calls |-> 0,
     executed |-> <<>>, ingested |-> <<>>]

\* the observations of seq held back and put in front of the earlier ones
ReceivedOutOfOrder(frame, seq) == [frame EXCEPT !.ingested = seq \o @]

\* memory_updater.update_from_observation receives the observations of seq,
\* one call each, as the agent produces them
Received(frame, seq) == [frame EXCEPT !.ingested = @ \o seq]

\* handle_query is left with a response or an exception
Leave(frame, resp, st, mem, rel) ==
    /\ ag' = [frame EXCEPT !.pc = "idle"]
    /\ response' = resp
    /\ state' = st
    /\ memory' = mem
    /\ reliability' = rel
    /\ UNCHANGED execVars

\* Agent._handle_semantic_encoding, then _format_response
Finish(frame, res, st, mem, rel) ==
    IF /\ res # NoResult
       /\ res.tool_name = "reason"
       /\ res.status = "success"
       /\ res.output.ty = "dict"
       /\ "answer" \in DOMAIN res.output.items
    THEN \E sem \in Extractions(res.output.items["answer"]) :
            IF FromReasonResultExc(sem) # NoExc
            THEN Leave(frame, RaisedResponse(FromReasonResultExc(sem)), st, mem, rel)
            ELSE Leave(Received(frame, FromReasonResult(sem)), FormatResponse(res),
                       st, UpdateFromAll(mem, FromReasonResult(sem)), rel)
    ELSE Leave(frame, FormatResponse(res), st, mem, rel)

\* the arguments sent to the executor: a copy of the step's arguments, with
\* "code" of the previous output injected when the step has none
WorkingArgs(step, previous_result) ==
    LET args == step.action.arguments
        out == previous_result.output
    IN IF /\ previous_result # NoResult
          /\ out.ty = "dict"
          /\ "code" \in DOMAIN out.items
          /\ "code" \notin DOMAIN args.items
       THEN PyDict([k \in DOMAIN args.items \cup {"code"} |->
                       IF k = "code" THEN out.items["code"] ELSE args.items[k]])
       ELSE args

\* the loop of _execute_with_possible_replan from plan step i on: up to the
\* next executor call, or to the end of handle_query
RunFrom(frame, i, previous_result, st, mem, rel, lat) ==
    IF i > Len(frame.plan.steps)
    THEN Finish(frame, previous_result, st, mem, rel)
    ELSE IF frame.plan.steps[i].action.kind # "ToolCall"
    THEN Leave(frame, RaisedResponse(Exc("AttributeError",
                   Msg("", "none_has_no_tool_name", {}, ""))), st, mem, rel)
    ELSE /\ ExecuteCall(frame.plan.steps[i].action.tool_name,
                        WorkingArgs(frame.plan.steps[i], previous_result), lat)
         /\ ag' = [frame EXCEPT !.pc = "executing", !.step = i,
                                !.previous_result = previous_result,
                                !.executor_calls = @ + 1]
         /\ response' = NoResponse
         /\ state' = st
         /\ memory' = mem
         /\ reliability' = rel

\* a _start_turn that also advances the graph's turn
StartTurnMemoryAdvancing(mem, user_input) ==
    UpdateFromObservation(GraphNewTurn(mem),
        Observation("user", "entity", ValuePayload(user_input)))

\* Agent._start_turn, its effect on the memory: the user observation is
\* ingested; graph.new_turn() is not called
StartTurnMemory(mem, user_input) ==
    UpdateFromObservation(mem,
        Observation("user", "entity", ValuePayload(user_input)))

\* handle_query up to the planner call: _start_turn, _extract_stability and
\* list_tools (both read only), then planner.generate_plan is entered
HandleQuery(user_input, most) ==
    /\ ag.pc = "idle"
    /\ ex.pc = "idle"
    /\ state.turn_count < most
    /\ state' = NewTurn(state, user_input)
    /\ memory' = StartTurnMemory(memory, user_input)
    /\ ag' = Received([IdleAgent EXCEPT !.pc = "planning",
                                        !.user_input = user_input,
                                        !.planner_calls = 1],
                      <<Observation("user", "entity", ValuePayload(user_input))>>)
    /\ response' = NoResponse
    /\ UNCHANGED reliability
    /\ UNCHANGED execVars

\* the planner returned: the rest of _plan, then the first executor call.
\* _plan logs step.action.tool_name of every step before it looks at the first
\* step, so a step without an action raises there; Plan.first_step raises
\* ValueError on a plan without steps.  The frame keeps the plan returned.
PlannerReturns(plan, lat) ==
    /\ ag.pc = "planning"
    /\ IF plan.kind = "None" \/ IsEmpty(plan)
       THEN Leave([ag EXCEPT !.plan = plan],
                  FailureResponse(Msg("", "planner_produced_no_action", {}, "")),
                  state, memory, reliability)
       ELSE IF \E i \in 1..Len(plan.steps) : plan.steps[i].action.kind # "ToolCall"
       THEN Leave([ag EXCEPT !.plan = plan],
                  RaisedResponse(Exc("AttributeError",
                      Msg("", "none_has_no_tool_name", {}, ""))),
                  state, memory, reliability)
       ELSE IF Len(plan.steps) = 0
       THEN Leave([ag EXCEPT !.plan = plan],
                  RaisedResponse(Exc("ValueError",
                      Msg("", "first_step_of_empty_plan", {}, ""))),
                  state, memory, reliability)
       ELSE RunFrom([ag EXCEPT !.plan = plan], 1, NoResult,
                    [RecordPlan(state, plan) EXCEPT
                        !.last_tool_call = plan.steps[1].action],
                    memory, reliability, lat)

\* the planner raised: nothing in handle_query catches it
PlannerRaises(exc) ==
    /\ ag.pc = "planning"
    /\ Leave(ag, RaisedResponse(exc), state, memory, reliability)

\* a chain stopped by a blocked step only
StopsChainWhenBlocked(res) == res.status = "blocked"

\* _execute_with_possible_replan returns the result of a step at once when
\* its status is not "success"
StopsChain(res) == res.status # "success"

\* the executor returned: the rest of _execute_step, then the loop goes on
AfterExecute(lat, delta) ==
    /\ ag.pc = "executing"
    /\ ex.pc = "idle"
    /\ IF raised # NoExc
       THEN Leave(ag, RaisedResponse(raised), state, memory, reliability)
       ELSE LET tool_name == ag.plan.steps[ag.step].action.tool_name
                st == RecordExecution(state, NameOnly(tool_name), result)
                rel == ReliabilityRecord(reliability, tool_name,
                                         result.status = "success", delta)
                mem == UpdateFromObservation(memory,
                           Observation("tool", "result", ResultPayload(result)))
                frame == Received([ag EXCEPT !.executed =
                                      Append(@, Executed(ag.step, tool_name, result))],
                                  <<Observation("tool", "result", ResultPayload(result))>>)
            IN IF StopsChain(result)
               THEN Finish(frame, result, st, mem, rel)
               ELSE RunFrom(frame, ag.step + 1, result, st, mem, rel, lat)

(***************************************************************************)
(* The session of examples/run_agent.py: tools, queries, planner           *)
(***************************************************************************)
ExampleEcho ==
    Tool("echo", "local", EchoSchema.in, EchoSchema.out, "", "1.0.0",
         TRUE, DefaultMaxRetries)

UserInputs == {EStr(1)}

\* the steps a planner may put in a plan
StepChoices ==
    {PlanStep(ToolCall("echo", PyDict(Items1("text", EStr(1))), 10), 10),
     PlanStep(ToolCall("reason", PyDict(Items1("question", EStr(1))), 10), 2),
     PlanStep(ToolCall("nonexistent_tool", PyDict(NoItems), 10), 10),
     PlanStep(NoAction, 10)}

\* what generate_plan may return: None, or a plan of up to MaxPlanSteps steps
Plans ==
    {NoPlan} \cup
    {Plan(steps) : steps \in UNION {[1..n -> StepChoices] : n \in 0..MaxPlanSteps}}

PlannerErrors == {Exc("TypeError", Msg("", "unexpected_keyword_argument", {}, "args"))}

\* what the connectors do in this session
SessionOutcomes(tool) ==
    {Returns(ValidOutput(tool.output_schema)), Raises("ConnectionError", "boom")}

(***************************************************************************)
(* Specification of the execution kernel                                   *)
(***************************************************************************)
AgentVarsInit ==
    /\ ag = IdleAgent
    /\ state = InitialState
    /\ memory = EmptyMemory
    /\ reliability = NoStats
    /\ response = NoResponse
    /\ trail = NoTrail

Init ==
    /\ tools = {}
    /\ connectors = [n \in {} |-> "active"]
    /\ ex = IdleFrame
    /\ result = NoResult
    /\ raised = NoExc
    /\ log = <<>>
    /\ AgentVarsInit

Next ==
    \/ \E t \in Catalog : Register(t) /\ UNCHANGED agentVars
    \/ \E n \in ConnectorNames : ConnectorRegister(n) /\ UNCHANGED agentVars
    \/ \E n \in ConnectorNames : Undeploy(n) /\ UNCHANGED agentVars
    \/ \E n \in ConnectorNames : Deploy(n) /\ UNCHANGED agentVars
    \/ \E n \in CallNames, a \in ArgChoices, lat \in 0..MaxLatency :
          ExecuteCall(n, a, lat) /\ UNCHANGED agentVars
    \/ \E out \in AttemptOutcomes(ex.tool), lat \in 0..MaxLatency :
          Attempt(out, lat) /\ UNCHANGED agentVars
    \/ \E out \in ConnectorOutcomes(ex.tool), lat \in 0..MaxLatency :
          HybridConnector(out, lat) /\ UNCHANGED agentVars

Spec == Init /\ [][Next]_vars

(***************************************************************************)
(* Specification of an Agent session                                       *)
(***************************************************************************)
\* the Agent of examples/run_agent.py after construction
AgentInit ==
    /\ tools = {ExampleEcho, ReasonTool}
    /\ connectors = [n \in ConnectorNames |-> "active"]
    /\ ex = IdleFrame
    /\ result = NoResult
    /\ raised = NoExc
    /\ log = <<>>
    /\ AgentVarsInit

AgentNext ==
    \/ \E u \in UserInputs : HandleQuery(u, MaxTurns) /\ UNCHANGED trail
    \/ \E p \in Plans, lat \in 0..MaxLatency :
          PlannerReturns(p, lat) /\ UNCHANGED trail
    \/ \E e \in PlannerErrors : PlannerRaises(e) /\ UNCHANGED trail
    \/ \E out \in SessionOutcomes(ex.tool), lat \in 0..MaxLatency :
          ag.pc = "executing" /\ Attempt(out, lat) /\ UNCHANGED agentVars
    \/ \E lat \in 0..MaxLatency, delta \in 0..MaxElapsed :
          AfterExecute(lat, delta) /\ UNCHANGED trail

SpecAgent == AgentInit /\ [][AgentNext]_vars

(***************************************************************************)
(* Specification of a session on the memory alone: the graph, the updater, *)
(* the forgetting policy                                                   *)
(***************************************************************************)
NodeTypes == {"entity", "goal"}

\* entity observations of "Bohr" and of "Einstein"
EntityObservations ==
    {Observation("user", "entity", ValuePayload(EStr(1))),
     Observation("user", "entity", ValuePayload(EStr(2)))}

\* the nodes add_node is called with: entities "Bohr", "Einstein" and None,
\* and a goal
AnalyzerNodes ==
    {[type |-> "entity", value |-> ValuePayload(EStr(1))],
     [type |-> "entity", value |-> ValuePayload(EStr(2))],
     [type |-> "entity", value |-> ValuePayload(NoInput)],
     [type |-> "goal", value |-> ValuePayload(EStr(2))]}

\* the default threshold 0.0, and 2.0
Thresholds == {0, 2}

\* a graph written by an earlier session, of n nodes: node 2 a goal, the
\* others entities, of two values in alternation, created at turns
\* 0, 1, 2, ... in rotation
SavedGraph(n) ==
    [turn |-> MaxGraphTurn,
     nodes |-> {Node(i, IF i = 2 THEN "goal" ELSE "entity",
                     ValuePayload(EStr(1 + (i % 2))), i % MaxGraphTurn) : i \in 1..n},
     edges |-> <<Edge(1, 2, "about"), Edge(n, 1, "about")>>]

SavedGraphs == {SavedGraph(n) : n \in {MaxNodes, MaxLoaded - 2, MaxLoaded}}

MemoryInit ==
    /\ tools = {}
    /\ connectors = [n \in {} |-> "active"]
    /\ ex = IdleFrame
    /\ result = NoResult
    /\ raised = NoExc
    /\ log = <<>>
    /\ AgentVarsInit

\* graph.new_turn(), up to turn `most`
\* the observations a session ingests: the two entities, and a concept of
\* the same value as the first
IngestedObservations ==
    EntityObservations
    \cup {Observation("inference", "concept", ValuePayload(EStr(1)))}

NewTurnCall(most) ==
    /\ memory.turn < most
    /\ memory' = GraphNewTurn(memory)
    /\ trail' = Trail("new_turn", {}, 0, EmptyMemory, NoReturn, trail.observed)

\* memory_updater.update_from_observation(obs)
IngestCall(obs) ==
    /\ Len(trail.observed) < MaxIngests
    /\ memory' = UpdateFromObservation(memory, obs)
    /\ trail' = Trail("ingest", {}, 0, EmptyMemory, NoReturn,
                      Append(trail.observed, [obs |-> obs, turn |-> memory.turn]))

\* graph.add_node(type, value), for at most `most` nodes in a session
AddNodeCall(type, value, most) ==
    /\ memory.next_id <= most
    /\ memory' = AddNode(memory, type, value)
    /\ trail' = Trail("add_node", {}, 0, EmptyMemory, NoReturn, trail.observed)

\* graph.add_edge(source, target, relation)
AddEdgeCall(source, target, relation) ==
    /\ Len(memory.edges) < MaxEdges
    /\ memory' = AddEdge(memory, source, target, relation)
    /\ trail' = Trail("add_edge", {}, 0, EmptyMemory, NoReturn, trail.observed)

\* graph.remove_nodes(ids)
RemoveNodesCall(ids) ==
    /\ memory' = RemoveNodes(memory, ids)
    /\ trail' = Trail("remove_nodes", ids, 0, memory,
                      [nodes |-> RemovedNodes(memory, ids),
                       edges |-> RemovedEdges(memory, ids)],
                      trail.observed)

\* graph.load_state(turn, nodes, edges) in a fresh process
LoadStateCall(saved) ==
    /\ memory = EmptyMemory
    /\ memory' = LoadState(memory, saved.turn, saved.nodes, saved.edges)
    /\ trail' = Trail("load_state", {}, 0, EmptyMemory, NoReturn, trail.observed)

\* MemoryForgetting.prune(threshold)
PruneCall(threshold) ==
    /\ memory' = Prune(memory, threshold)
    /\ trail' = Trail("prune", {}, threshold, memory, NoReturn, trail.observed)

MemoryUnchanged == UNCHANGED <<execVars, ag, state, reliability, response>>

MemoryNext ==
    \/ IngestCall(Observation("user", "entity", ValuePayload(EStr(1))))
          /\ MemoryUnchanged
    \/ \E type \in NodeTypes :
          AddNodeCall(type, ValuePayload(EStr(1)), MaxNodes) /\ MemoryUnchanged
    \/ \E source \in 1..MaxNodes :
          AddEdgeCall(source, MaxNodes, "about") /\ MemoryUnchanged
    \/ \E ids \in SUBSET (1..MaxNodes) : RemoveNodesCall(ids) /\ MemoryUnchanged
    \/ \E saved \in SavedGraphs : LoadStateCall(saved) /\ MemoryUnchanged
    \/ \E threshold \in Thresholds : PruneCall(threshold) /\ MemoryUnchanged

SpecMemory == MemoryInit /\ [][MemoryNext]_vars

\* a session of turns and entity observations, as the PersistenceAnalyzer
\* of an agent sees them
StabilityNext ==
    \/ NewTurnCall(MaxGraphTurn) /\ MemoryUnchanged
    \/ \E obs \in IngestedObservations : IngestCall(obs) /\ MemoryUnchanged

SpecStability == MemoryInit /\ [][StabilityNext]_vars

\* a session of turns and nodes added to the graph directly
AnalyzerNext ==
    \/ NewTurnCall(MaxAge) /\ MemoryUnchanged
    \/ \E n \in AnalyzerNodes :
          AddNodeCall(n.type, n.value, MaxAdded) /\ MemoryUnchanged

SpecAnalyzer == MemoryInit /\ [][AnalyzerNext]_vars

(***************************************************************************)
(* Specification of a session on the registry alone                        *)
(***************************************************************************)
\* the WideSchema contract written with the keys of its schemas in the other
\* order, and one of a later version
EchoReordered ==
    Tool("echo", "local",
         <<WideSchema.in[2], WideSchema.in[1]>>, <<WideSchema.out[2], WideSchema.out[1]>>,
         "", "1.0.0", TRUE, 0)

EchoNextVersion ==
    Tool("echo", "local", WideSchema.in, WideSchema.out, "", "1.1.0", TRUE, 0)

RegistryCatalog == Catalog \cup {EchoReordered, EchoNextVersion}

\* the last call on the registry: the tool it was given, the registry it
\* found, what it returned
RegistryTrail(op, tool, before, returned) ==
    [op |-> op, tool |-> tool, before |-> before, returned |-> returned]

RegistryUnchanged ==
    UNCHANGED <<connectors, ex, result, raised, log, ag, state, memory,
                reliability, response>>

\* registry.register(tool), where the name is free
RegisterCall(tool) ==
    /\ tool.name \notin ToolNamesOf(tools)
    /\ tools' = tools \cup {tool}
    /\ trail' = RegistryTrail("register", tool, tools, "None")

\* registry.register_or_update(tool)
RegisterOrUpdateCall(tool) ==
    /\ tools' = RegisterOrUpdate(tools, tool)
    /\ trail' = RegistryTrail("register_or_update", tool, tools,
                              RegisterOrUpdateStatus(tools, tool))

RegistryNext ==
    \/ \E t \in RegistryCatalog : RegisterCall(t) /\ RegistryUnchanged
    \/ \E t \in RegistryCatalog : RegisterOrUpdateCall(t) /\ RegistryUnchanged

SpecRegistry == MemoryInit /\ [][RegistryNext]_vars

(***************************************************************************)
(* Specification of a session on the two validators alone                  *)
(***************************************************************************)
\* the primitive tags a schema field is declared with
FieldTypes == {"string", "int", "float", "bool"}

\* the values a caller or a connector puts in a field: "a", 1, 0, True,
\* False, 1.0
FieldValues ==
    {EStr(1), EInt(1), EInt(0), EBool(1), EBool(0), Elem("float", 1, <<>>)}

\* schemas of two required fields
FieldSchemas ==
    {<<Field("n", StrSpec(a, FALSE)), Field("m", StrSpec(b, FALSE))>> :
        a \in FieldTypes, b \in FieldTypes}

FieldDicts == {PyDict(Items2("n", v, "m", w)) : v \in FieldValues, w \in FieldValues}

\* the last call on a validator: the schema and the value it was given, the
\* exception it raised (NoExc when it returned the value)
ValidatorTrail(op, schema, value, exc) ==
    [op |-> op, schema |-> schema, value |-> value, raised |-> exc]

ValidatorUnchanged ==
    UNCHANGED <<tools, connectors, ex, result, raised, log, ag, state, memory,
                reliability, response>>

\* ArgumentValidator.validate(tool_name, args) for a tool of this input schema
ArgValidateCall(schema, args) ==
    trail' = ValidatorTrail("validate_arguments", schema, args,
                            ArgValidate(schema, args))

\* OutputValidator.validate(tool_name, output) for a tool of this output schema
OutValidateCall(schema, output) ==
    trail' = ValidatorTrail("validate_output", schema, output,
                            OutValidate(schema, output))

ValidatorNext ==
    \/ \E schema \in FieldSchemas, args \in FieldDicts :
          ArgValidateCall(schema, args) /\ ValidatorUnchanged
    \/ \E schema \in FieldSchemas, output \in FieldDicts :
          OutValidateCall(schema, output) /\ ValidatorUnchanged

SpecValidators == MemoryInit /\ [][ValidatorNext]_vars

(***************************************************************************)
(* Specification of a session on the reliability tracker alone             *)
(***************************************************************************)
ReliabilityUnchanged ==
    UNCHANGED <<tools, connectors, ex, result, raised, log, ag, state, memory,
                response, trail>>

\* the samples held for all tools together, in hundredths
SamplesHeld ==
    LET RECURSIVE Sum(_)
        Sum(S) == IF S = {} THEN 0
                  ELSE LET t == CHOOSE x \in S : TRUE
                       IN reliability[t].success + reliability[t].fail + Sum(S \ {t})
    IN Sum(DOMAIN reliability)

\* tool_reliability.record(tool_name, success), delta seconds after the
\* tool's last record
RecordCall(tool_name, success, delta) ==
    /\ SamplesHeld < MaxSamples * 100
    /\ reliability' = ReliabilityRecord(reliability, tool_name, success, delta)

ReliabilityNext ==
    \E tool_name \in {"echo", "reason"}, success \in BOOLEAN, delta \in 0..MaxElapsed :
        RecordCall(tool_name, success, delta) /\ ReliabilityUnchanged

SpecReliability == MemoryInit /\ [][ReliabilityNext]_vars

(***************************************************************************)
(* Specification of a session on AgentState alone                          *)
(***************************************************************************)
\* the results recorded: a success, a failure, a blocked result
RecordedResults ==
    {SuccessResult("echo", "1.0.0", PyDict(Items1("text", EStr(1))), 0, 10),
     FailureResult("echo", "1.0.0", Msg("", "timed_out", {}, ""), 0),
     BlockedResult("echo", Msg("", "not_registered", {}, ""))}

\* every result recorded so far, oldest first
StateTrail(op, recorded) == [op |-> op, recorded |-> recorded]

\* state.record_execution(tool_call, result)
RecordExecutionCall(tool_call, res) ==
    /\ state' = RecordExecution(state, tool_call, res)
    /\ trail' = StateTrail("record_execution",
                           IF trail.op = "record_execution"
                           THEN Append(trail.recorded, res) ELSE <<res>>)

StateUnchanged ==
    UNCHANGED <<tools, connectors, ex, result, raised, log, ag, memory,
                reliability, response>>

StateNext ==
    \E res \in RecordedResults :
        /\ trail.op = "record_execution" => Len(trail.recorded) < MaxRecorded
        /\ RecordExecutionCall(ToolCall("echo", PyDict(Items1("text", EStr(1))), 10), res)
        /\ StateUnchanged

SpecState == MemoryInit /\ [][StateNext]_vars

(***************************************************************************)
(* Specification of a deployment session: connectors are undeployed and    *)
(* deployed again between and during execute calls                         *)
(***************************************************************************)
\* the connectors for which an execute has been blocked while they were
\* inactive, and those of them deployed again since
DeployTrail(blocked, redeployed) ==
    [op |-> "deploy", blocked |-> blocked, redeployed |-> redeployed]

\* a registry holding one contract named "echo" and the reason tool, every
\* connector registered and active
DeployInit ==
    /\ tools \in {{t, ReasonTool} : t \in Catalog \ {ReasonTool}}
    /\ connectors = [n \in ConnectorNames |-> "active"]
    /\ ex = IdleFrame
    /\ result = NoResult
    /\ raised = NoExc
    /\ log = <<>>
    /\ ag = IdleAgent
    /\ state = InitialState
    /\ memory = EmptyMemory
    /\ reliability = NoStats
    /\ response = NoResponse
    /\ trail = DeployTrail({}, {})

DeployUnchanged == UNCHANGED <<ag, state, memory, reliability, response>>

\* the error of the blocked result execute returns for an inactive connector
InactiveError(name) ==
    WithPrefix("Registry failure", Msg("", "connector_inactive", {}, name))

DeployNext ==
    \/ \E n \in ConnectorNames :
          Undeploy(n) /\ DeployUnchanged /\ UNCHANGED trail
    \/ \E n \in ConnectorNames :
          /\ Deploy(n)
          /\ DeployUnchanged
          /\ trail' = IF n \in trail.blocked /\ connectors[n] = "inactive"
                      THEN [trail EXCEPT !.redeployed = @ \cup {n}]
                      ELSE trail
    \/ \E n \in {"echo", "reason"}, a \in ArgChoices :
          /\ ExecuteCall(n, a, 0)
          /\ DeployUnchanged
          /\ trail' = IF /\ result'.status = "blocked"
                         /\ result'.error = InactiveError(ex'.tool.connector_name)
                      THEN [trail EXCEPT !.blocked = @ \cup {ex'.tool.connector_name}]
                      ELSE trail
    \/ \E out \in AttemptOutcomes(ex.tool) :
          Attempt(out, 0) /\ DeployUnchanged /\ UNCHANGED trail
    \/ \E out \in ConnectorOutcomes(ex.tool) :
          HybridConnector(out, 0) /\ DeployUnchanged /\ UNCHANGED trail

SpecDeploy == DeployInit /\ [][DeployNext]_vars

(***************************************************************************)
(* Specification of concurrent callers: every thread makes one call on the *)
(* ToolRegistry or the ConnectorManager, the calls interleave statement by *)
(* statement.  A registered connector whose _status entry is not written   *)
(* yet has the status "none" (what _status.get(name) answers).             *)
(***************************************************************************)
Threads == 1..MaxThreads

\* the RLock: its owner (0 when free) and how often the owner holds it
Lock(owner, count) == [owner |-> owner, count |-> count]

\* a lock that excludes nobody
CanAcquireAlways(lk, t) == TRUE

\* RLock.acquire goes through when the lock is free or held by the caller
CanAcquire(lk, t) == lk.owner = 0 \/ lk.owner = t

Acquired(lk, t) == Lock(t, IF lk.owner = t THEN lk.count + 1 ELSE 1)

Released(lk) == IF lk.count <= 1 THEN Lock(0, 0) ELSE Lock(lk.owner, lk.count - 1)

\* one call: its method, the tool or the name it is given
Op(kind, tool, key) == [kind |-> kind, tool |-> tool, key |-> key]

\* what a call gives back: how it ended, and the tools it returned
Ret(status, value) == [status |-> status, value |-> value]

NoRet == Ret("", {})

ThreadOps ==
    {Op("register", t, t.name) : t \in {ExampleEcho, EchoNextVersion, ReasonTool}}
    \cup {Op("register_or_update", ExampleEcho, "echo"),
          Op("get", NoTool, "echo"), Op("list_tools", NoTool, ""),
          Op("connector_register", NoTool, "local"),
          Op("connector_get", NoTool, "local")}

\* a thread: where it is in its call, the call, what it returned
ThreadFrame(pc, op, ret) == [pc |-> pc, op |-> op, ret |-> ret]

ThreadsTrail(lock, th) == [op |-> "threads", lock |-> lock, th |-> th]

ThreadsInit ==
    /\ tools = {}
    /\ connectors = [n \in {} |-> "active"]
    /\ ex = IdleFrame
    /\ result = NoResult
    /\ raised = NoExc
    /\ log = <<>>
    /\ ag = IdleAgent
    /\ state = InitialState
    /\ memory = EmptyMemory
    /\ reliability = NoStats
    /\ response = NoResponse
    /\ trail = ThreadsTrail(Lock(0, 0),
                   [t \in Threads |-> ThreadFrame("idle", Op("", NoTool, ""), NoRet)])

ThreadsUnchanged ==
    UNCHANGED <<ex, result, raised, log, ag, state, memory, reliability, response>>

\* thread t goes on to pc, having returned ret
Goes(t, pc, ret) == [trail EXCEPT !.th[t].pc = pc, !.th[t].ret = ret]

\* a call is entered: the name checks before "with self._lock" pass for
\* every call of ThreadOps
Call(t, op) ==
    /\ trail.th[t].pc = "idle"
    /\ trail' = [trail EXCEPT !.th[t] = ThreadFrame("acquire", op, NoRet)]
    /\ UNCHANGED <<tools, connectors>>

\* "with self._lock:" is entered
Acquire(t) ==
    /\ trail.th[t].pc = "acquire"
    /\ CanAcquire(trail.lock, t)
    /\ trail' = [trail EXCEPT !.th[t].pc = "check", !.lock = Acquired(@, t)]
    /\ UNCHANGED <<tools, connectors>>

\* the first statement under the lock: the membership test or the read
Check(t) ==
    LET op == trail.th[t].op
    IN /\ trail.th[t].pc = "check"
       /\ UNCHANGED <<tools, connectors>>
       /\ trail' =
            CASE op.kind = "register" ->
                    IF op.key \in ToolNamesOf(tools)
                    THEN Goes(t, "release", Ret("ValueError", {}))
                    ELSE Goes(t, "store", Ret("None", {}))
              [] op.kind = "register_or_update" ->
                    IF op.key \notin ToolNamesOf(tools)
                    THEN Goes(t, "store", Ret("registered", {}))
                    ELSE IF ContractHash(RegistryGet(tools, op.key)) = ContractHash(op.tool)
                    THEN Goes(t, "release", Ret("unchanged", {}))
                    ELSE Goes(t, "store", Ret("updated", {}))
              [] op.kind = "get" ->
                    IF op.key \in ToolNamesOf(tools)
                    THEN Goes(t, "release", Ret("tool", {RegistryGet(tools, op.key)}))
                    ELSE Goes(t, "release", Ret("KeyError", {}))
              [] op.kind = "list_tools" -> Goes(t, "release", Ret("list", tools))
              [] op.kind = "connector_register" ->
                    IF op.key \in DOMAIN connectors
                    THEN Goes(t, "release", Ret("ValueError", {}))
                    ELSE Goes(t, "store", Ret("None", {}))
              [] op.kind = "connector_get" ->
                    IF op.key \notin DOMAIN connectors
                    THEN Goes(t, "release", Ret("KeyError", {}))
                    ELSE Goes(t, "status", NoRet)

\* "self._tools[tool.name] = tool", "self._connectors[name] = connector"
Store(t) ==
    LET op == trail.th[t].op
    IN /\ trail.th[t].pc = "store"
       /\ IF op.kind = "connector_register"
          THEN /\ connectors' = [n \in DOMAIN connectors \cup {op.key} |->
                                    IF n = op.key THEN "none" ELSE connectors[n]]
               /\ tools' = tools
               /\ trail' = Goes(t, "status", trail.th[t].ret)
          ELSE /\ tools' = {x \in tools : x.name # op.key} \cup {op.tool}
               /\ connectors' = connectors
               /\ trail' = Goes(t, "release", trail.th[t].ret)

\* "self._status[name] = 'active'" of register, the status test of get
Status(t) ==
    LET op == trail.th[t].op
    IN /\ trail.th[t].pc = "status"
       /\ tools' = tools
       /\ IF op.kind = "connector_register"
          THEN /\ connectors' = [connectors EXCEPT ![op.key] = "active"]
               /\ trail' = Goes(t, "release", trail.th[t].ret)
          ELSE /\ connectors' = connectors
               /\ trail' = Goes(t, "release",
                                IF connectors[op.key] # "active"
                                THEN Ret("RuntimeError", {})
                                ELSE Ret("connector", {}))

\* the with block is left, the call returns or raises
Release(t) ==
    /\ trail.th[t].pc = "release"
    /\ trail' = [trail EXCEPT !.th[t].pc = "done", !.lock = Released(@)]
    /\ UNCHANGED <<tools, connectors>>

ThreadsNext ==
    \/ \E t \in Threads, op \in ThreadOps : Call(t, op) /\ ThreadsUnchanged
    \/ \E t \in Threads : Acquire(t) /\ ThreadsUnchanged
    \/ \E t \in Threads : Check(t) /\ ThreadsUnchanged
    \/ \E t \in Threads : Store(t) /\ ThreadsUnchanged
    \/ \E t \in Threads : Status(t) /\ ThreadsUnchanged
    \/ \E t \in Threads : Release(t) /\ ThreadsUnchanged

SpecThreads == ThreadsInit /\ [][ThreadsNext]_vars

(***************************************************************************)
(* Specification of a session on the scorer's restore alone                *)
(***************************************************************************)
\* keys of a persisted dict: the ids "1" and "2" as strings, and the number 3
EntryKeys == {EStr(1), EStr(2), EInt(3)}

\* values of a persisted dict: 2, -1, "a", True
EntryValues == {EInt(2), EInt(0 - 1), EStr(1), EBool(1)}

EntryDicts ==
    {Dict(f) : f \in UNION {[K -> EntryValues] : K \in SUBSET EntryKeys}}

\* the data handed to load: well-shaped with any entries, or mis-shaped
ScorerDatas ==
    {ScorerData("dict", d, Dict([k \in {EStr(1)} |-> v])) :
        d \in EntryDicts, v \in {EInt(1), EInt(0 - 1)}}
    \cup {ScorerData("dict", NotADict, Dict(<<>>)),
          ScorerData("list", Dict(<<>>), Dict(<<>>))}

\* the last call on the scorer: the data, the scorer it found, what it raised
ScorerTrail(op, data, before, exc) ==
    [op |-> op, data |-> data, before |-> before, raised |-> exc]

\* scorer.load(data)
ScorerLoadCall(data) ==
    /\ memory' = ScorerLoad(memory, data)
    /\ trail' = ScorerTrail("scorer_load", data, memory, ScorerLoadExc(data))

\* scorer.register_occurrence(node_id)
RegisterOccurrenceCall(id) ==
    /\ Score(memory, id) < MaxCounted
    /\ memory' = RegisterOccurrence(memory, id)
    /\ trail' = ScorerTrail("register_occurrence", ScorerData("none", NotADict, NotADict),
                            memory, NoExc)

ScorerUnchanged ==
    UNCHANGED <<tools, connectors, ex, result, raised, log, ag, state,
                reliability, response>>

ScorerNext ==
    \/ \E data \in ScorerDatas : ScorerLoadCall(data) /\ ScorerUnchanged
    \/ \E id \in 1..2 : RegisterOccurrenceCall(id) /\ ScorerUnchanged

SpecScorer == MemoryInit /\ [][ScorerNext]_vars

(***************************************************************************)
(* Specification of a long Agent session: one query asked once, then       *)
(* another asked turn after turn; the planner answers with no plan or with *)
(* a single echo step, and the connector returns a valid output            *)
(***************************************************************************)
\* the query of the next turn
SessionInput == IF state.turn_count = 0 THEN EStr(1) ELSE EStr(2)

SessionPlans ==
    {NoPlan, Plan(<<PlanStep(ToolCall("echo", PyDict(Items1("text", EStr(1))), 10), 10)>>)}

SessionNext ==
    \/ HandleQuery(SessionInput, MaxSessionTurns) /\ UNCHANGED trail
    \/ \E p \in SessionPlans : PlannerReturns(p, 0) /\ UNCHANGED trail
    \/ /\ ag.pc = "executing"
       /\ Attempt(Returns(ValidOutput(ex.tool.output_schema)), 0)
       /\ UNCHANGED agentVars
    \/ AfterExecute(0, 0) /\ UNCHANGED trail

SpecSession == AgentInit /\ [][SessionNext]_vars

(***************************************************************************)
(* Properties of ToolExecutor.execute                                      *)
(***************************************************************************)
\* an execute call has ended and nothing else has started
Returned == ex.pc = "idle" /\ ex.tool_name # ""

Statuses == {"success", "failure", "blocked"}

CountInvocations(conn) == Cardinality({i \in 1..Len(log) : log[i].conn = conn})

\* the error execute reports for an exception recorded by the attempt loop
RecordedError(exc) ==
    IF exc.cls = "TimeoutError" THEN Msg("", "timed_out", {}, "") ELSE exc.msg

\* C1: execute always ends by returning a ToolResult with one of the three
\* statuses; no exception leaves it, whatever the registries hold and whatever
\* the connectors do.
C1_ExecuteNeverRaises ==
    /\ raised = NoExc
    /\ Returned => result.status \in Statuses

\* C1 witness: an inactive connector's RuntimeError and a connector's own
\* exception were both turned into results
C1_Witness ==
    /\ Returned
    /\ result.status = "failure"
    /\ ex.last.out.kind = "raise"
    /\ \E i \in 1..Len(log) : TRUE
    /\ \E n \in DOMAIN connectors : connectors[n] = "inactive"

\* C2: a call whose tool name is not registered, or whose tool names a
\* connector that is not registered, returns blocked / "unknown" / latency 0 /
\* stability 0 and invokes no connector.  (Registrations are never removed, so
\* a name absent now was absent when the call resolved.)
C2_UnresolvedIsBlocked ==
    (/\ Returned
     /\ \/ ex.tool_name \notin ToolNamesOf(tools)
        \/ ex.tool # NoTool /\ ex.tool.connector_name \notin DOMAIN connectors)
    => /\ result.status = "blocked"
       /\ result.tool_version = "unknown"
       /\ result.latency_ms = 0
       /\ result.stability_signal = 0
       /\ log = <<>>

\* C2 witness: the tool is registered, its connector is not
C2_Witness ==
    /\ Returned
    /\ ex.tool # NoTool
    /\ ex.tool.connector_name \notin DOMAIN connectors
    /\ result.status = "blocked"

\* C3 (as claimed): a failure is returned only when every connector the call
\* needs was resolved.  For a tool that declares an execution_model the call
\* needs the "llm" connector; when that connector is not registered, a call
\* that resolved its tool and passed argument validation is blocked.
C3_UnresolvedLlmIsBlocked ==
    (/\ Returned
     /\ ex.tool # NoTool
     /\ ex.tool.execution_model # ""
     /\ ex.connector # ""
     /\ "llm" \notin DOMAIN connectors
     /\ ex.args0.ty = "dict"
     /\ ArgValidate(ex.tool.input_schema, ex.args0) = NoExc)
    => result.status = "blocked"

\* the attempts the contract allows: max_retries + 1 when retryable, else one
Budget(tool) == IF tool.retryable THEN tool.max_retries + 1 ELSE 1

\* C4: in one execute call the tool's connector is invoked at most
\* max_retries + 1 times for a retryable tool and at most once otherwise.
C4_AttemptBudget ==
    ex.tool # NoTool =>
        CountInvocations(ex.tool.connector_name) <= Budget(ex.tool)

\* C4 witness: a retryable tool used its whole budget of at least two attempts
C4_Witness ==
    /\ Returned
    /\ ex.tool.retryable
    /\ ex.tool.max_retries >= 1
    /\ CountInvocations(ex.tool.connector_name) = ex.tool.max_retries + 1
    /\ result.status = "failure"

\* the fields an arguments value gets wrong against an input schema
OffendingFields(schema, args) ==
    IF ArgMissing(schema, args) # {} THEN ArgMissing(schema, args)
    ELSE IF ArgUnknown(schema, args) # {} THEN ArgUnknown(schema, args)
    ELSE {schema[i].key : i \in ArgBadType(schema, args)}

\* C5: when the tool and its connector resolve and the arguments violate the
\* input schema, execute returns failure "Invalid arguments" naming offending
\* field(s), without any connector invocation; echo {text: string} called
\* with {} names text.
C5_InvalidArgumentsFail ==
    (/\ Returned
     /\ ex.connector # ""
     /\ \/ ex.args0.ty # "dict"
        \/ OffendingFields(ex.tool.input_schema, ex.args0) # {})
    => /\ result.status = "failure"
       /\ result.error.prefix = "Invalid arguments"
       /\ log = <<>>
       /\ ex.args0.ty = "dict" =>
            /\ result.error.fields # {}
            /\ result.error.fields \subseteq
                   OffendingFields(ex.tool.input_schema, ex.args0)
       /\ (ex.tool.input_schema = EchoSchema.in /\ ex.args0 = PyDict(NoItems))
            => result.error.fields = {"text"}

\* C5 witness: a retryable echo tool called with {}
C5_Witness ==
    /\ Returned
    /\ ex.tool.input_schema = EchoSchema.in
    /\ ex.tool.retryable /\ ex.tool.max_retries >= 1
    /\ ex.args0 = PyDict(NoItems)
    /\ result.status = "failure"

\* the connector produced a raw output in the current attempt
RawOutput == ex.last.role = "raw" /\ ex.last.out.kind = "return"

\* the raw output breaks the output schema: not a dict, a declared field
\* missing, a stray field, or a field of the wrong type
BreaksOutputSchema(schema, output) ==
    \/ output.ty # "dict"
    \/ SchemaKeys(schema) # DOMAIN output.items
    \/ \E i \in 1..Len(schema) : output.items[schema[i].key].ty # "str"

\* C6: once a connector has returned an output that violates the output
\* schema, the call has ended with failure "Invalid output"; execute is not
\* in the loop for another attempt, even when attempts remain.
C6_InvalidOutputIsTerminal ==
    (RawOutput /\ BreaksOutputSchema(ex.tool.output_schema, ex.last.out.value))
    => /\ Returned
       /\ result.status = "failure"
       /\ result.error.prefix = "Invalid output"
       /\ result.stability_signal = 0

\* C6 witness: the output omitted a declared field while attempts remained
C6_Witness ==
    /\ RawOutput
    /\ ex.last.out.value.ty = "dict"
    /\ SchemaKeys(ex.tool.output_schema) \ DOMAIN ex.last.out.value.items # {}
    /\ ex.attempt < ex.max_attempts - 1
    /\ Returned

\* C7: after a connector raised (a timeout or anything else) the call has
\* ended only if that was the last allowed attempt, and then with failure,
\* the error of that last attempt and stability 0; otherwise execute goes on
\* to the next attempt.
C7_RetryUntilBudgetExhausted ==
    (ex.last.out.kind = "raise" /\ ex.tool_name # "")
    => IF ex.attempt >= Budget(ex.tool) - 1 /\ ex.pc = "idle"
       THEN /\ result.status = "failure"
            /\ result.error = RecordedError(ex.last.out.exc)
            /\ result.stability_signal = 0
       ELSE /\ ex.pc = "attempt"
            /\ ex.attempt < Budget(ex.tool)
            /\ result = NoResult

\* C7 witness: a timeout, then another exception on the last attempt
C7_Witness ==
    /\ Returned
    /\ ex.attempt >= 1
    /\ ex.last.out.exc.cls = "ConnectionError"
    /\ result.status = "failure"
    /\ result.error.text = "boom"

\* C8: when the connector's output passes validation on the attempt with
\* zero-based index k, execute returns success carrying that output, with
\* stability 1.0 - 0.1 * k (in tenths: 10 - k, never below 0).
C8_StabilityOfSuccess ==
    (RawOutput /\ ~BreaksOutputSchema(ex.tool.output_schema, ex.last.out.value))
    => /\ Returned
       /\ result.status = "success"
       /\ result.output = ex.last.out.value
       /\ result.stability_signal = (IF ex.attempt >= 10 THEN 0 ELSE 10 - ex.attempt)

\* C8 witness: success on the second attempt
C8_Witness ==
    /\ Returned
    /\ result.status = "success"
    /\ ex.attempt = 1
    /\ result.stability_signal = 9

(***************************************************************************)
(* Properties of Agent.handle_query                                        *)
(***************************************************************************)
\* a handle_query call has ended and no other has started
TurnDone == ag.pc = "idle" /\ response.kind # "none"

\* the condition under which a replan is to be triggered, on the first
\* executed result of the turn and the step that produced it
ReplanCondition ==
    LET first == ag.executed[1]
    IN \/ first.result.status # "success"
       \/ first.result.stability_signal < 5
       \/ ag.plan.steps[first.step].confidence < 3

\* C9 (as claimed): in a turn that executed at least one step, the planner is
\* invoked a second time if and only if the first executed result is not a
\* success, or its stability is below 0.5, or the step's confidence is
\* below 0.3.
C9_ReplanIffCondition ==
    (TurnDone /\ Len(ag.executed) >= 1)
    => (ag.planner_calls = 2 <=> ReplanCondition)

\* C10 (as claimed): in one handle_query the planner is invoked at most twice
\* and the executor at most twice; a second planner invocation is followed by
\* exactly one more execution, of a different tool.
C10_AtMostTwoInvocations ==
    /\ ag.planner_calls <= 2
    /\ ag.executor_calls <= 2
    /\ (TurnDone /\ ag.planner_calls = 2 /\ Len(ag.executed) = 2)
       => ag.executed[1].tool_name # ag.executed[2].tool_name

C12_EmptyPlanIsTerminal ==
    (TurnDone /\ ag.plan = Plan(<<>>))
    => /\ response.kind = "return"
       /\ response.status = "failure"
       /\ response.tool = NoName
       /\ response.output = PyNone
       /\ response.error # NoError
       /\ ag.executor_calls = 0
       /\ ag.executed = <<>>
       /\ \E n \in memory.nodes : /\ n.type = "entity"
                                  /\ n.value = ValuePayload(ag.user_input)
                                  /\ Score(memory, n.id) >= 1

C12_Witness ==
    /\ TurnDone
    /\ ag.plan = Plan(<<>>)
    /\ ag.planner_calls = 1
    /\ response.error = Msg("", "planner_produced_no_action", {}, "")
    /\ Cardinality(memory.nodes) = 1

\* C13: no exception crosses handle_query; a planner that raises, an empty or
\* malformed plan, a blocked tool, a validation failure and an execution
\* failure all come back to the caller as a response value.
C13_NoExceptionCrossesHandleQuery ==
    TurnDone => response.kind = "return"

\* the observations a turn has produced before any semantic encoding: the user
\* input, then one tool result for each finished execution, in that order
ProducedSoFar ==
    <<Observation("user", "entity", ValuePayload(ag.user_input))>>
    \o [i \in 1..Len(ag.executed) |->
          Observation("tool", "result", ResultPayload(ag.executed[i].result))]

\* C14: within a turn update_from_observation receives the observations in
\* production order: at every moment of the turn what it has received is the
\* user input, then the result of each execution finished so far, and once
\* the turn has ended with a successful reason result, the semantic
\* observations of that result (concepts, facts, relations) after all of them.
C14_IngestionInProductionOrder ==
    ag.planner_calls >= 1
    => LET n == Len(ProducedSoFar)
           rest == SubSeq(ag.ingested, n + 1, Len(ag.ingested))
           last == ag.executed[Len(ag.executed)].result
       IN /\ Len(ag.ingested) >= n
          /\ SubSeq(ag.ingested, 1, n) = ProducedSoFar
          /\ rest # <<>> =>
               /\ TurnDone
               /\ Len(ag.executed) >= 1
               /\ last.tool_name = "reason" /\ last.status = "success"
               /\ \E sem \in Extractions(last.output.items["answer"]) :
                     rest = FromReasonResult(sem)

C14_Witness ==
    /\ TurnDone
    /\ Len(ag.executed) = 2
    /\ Len(ag.ingested) = 6
    /\ ag.ingested[1].source = "user"
    /\ ag.ingested[2].source = "tool"
    /\ ag.ingested[3].payload.res.tool_name = "reason"
    /\ ag.ingested[4].type = "concept"
    /\ ag.ingested[6].type = "relation"

(***************************************************************************)
(* Properties of the memory: MemoryGraph, MemoryForgetting                 *)
(***************************************************************************)
\* the last call on the memory was remove_nodes / prune
JustRemoved == trail.op = "remove_nodes"

JustPruned == trail.op = "prune"

Occurrences(seq, e) == Cardinality({i \in 1..Len(seq) : seq[i] = e})

\* C15: after remove_nodes(ids) no edge of the graph has its source or its
\* target in ids, every edge returned as removed touched one of ids, and the
\* edges returned together with the edges left are the edges there were: the
\* returned list is exactly the edges that touched an id of ids.  The nodes
\* returned are the nodes of the graph that ids named.
C15_NoDanglingEdges ==
    JustRemoved
    => LET ids == trail.ids
           old == trail.before.edges
           gone == trail.returned.edges
           left == memory.edges
       IN /\ \A i \in 1..Len(left) : left[i].source \notin ids /\ left[i].target \notin ids
          /\ \A i \in 1..Len(gone) : gone[i].source \in ids \/ gone[i].target \in ids
          /\ \A i \in 1..Len(old) :
                Occurrences(old, old[i]) = Occurrences(gone, old[i]) + Occurrences(left, old[i])
          /\ Len(gone) + Len(left) = Len(old)
          /\ trail.returned.nodes = {n \in trail.before.nodes : n.id \in ids}
          /\ memory.nodes = trail.before.nodes \ trail.returned.nodes

C15_Witness ==
    /\ JustRemoved
    /\ Len(trail.returned.edges) = 1
    /\ Len(memory.edges) = 1
    /\ trail.returned.edges[1].target \in trail.ids
    /\ trail.returned.edges[1].source \notin trail.ids
    /\ trail.returned.nodes # {}

\* the nodes a prune call found, and those among them it removed
Found == trail.before.nodes

Pruned == trail.before.nodes \ memory.nodes

Structural(n) == n.type \in {"goal", "constraint", "signal"}

\* importance of n before the call strictly below the threshold of the call
WasBelow(n) == ImportanceBelow(trail.before, n, trail.threshold)

\* C16: prune removes no node of type goal, constraint or signal, whatever its
\* importance and the threshold; the nodes of other types whose importance is
\* below the threshold are all removed when there are at most 25 of them.
C16_ForgettingProtectsStructure ==
    JustPruned
    => /\ \A n \in Found : Structural(n) => n \in memory.nodes
       /\ LET eligible == {n \in Found : ~Structural(n) /\ WasBelow(n)}
          IN Cardinality(eligible) <= 25 => eligible \cap memory.nodes = {}

C16_Witness ==
    /\ JustPruned
    /\ \E g \in Found, e \in Found :
          /\ g.type = "goal" /\ e.type = "entity"
          /\ Score(trail.before, g.id) = Score(trail.before, e.id)
          /\ Age(trail.before, g) = Age(trail.before, e)
          /\ WasBelow(g) /\ WasBelow(e)
          /\ g \in memory.nodes
          /\ e \notin memory.nodes

\* C17: one prune(threshold) call removes only unprotected nodes whose
\* importance was strictly below threshold, as many of them as there are up to
\* 25, and the least important first: no eligible node it leaves was strictly
\* less important than a node it removed.
C17_PruneLowestFirstCapped ==
    JustPruned
    => LET eligible == {n \in Found : ~Structural(n) /\ WasBelow(n)}
       IN /\ memory.nodes \subseteq Found
          /\ Pruned \subseteq eligible
          /\ Cardinality(Pruned) <= 25
          /\ Cardinality(Pruned) = IF Cardinality(eligible) <= 25
                                   THEN Cardinality(eligible) ELSE 25
          /\ \A k \in eligible \ Pruned : \A r \in Pruned :
                ~ImportanceLess(trail.before, k, r)

C17_Witness ==
    /\ JustPruned
    /\ Cardinality(Pruned) = 25
    /\ \E k \in Found \ Pruned : \E r \in Pruned :
          /\ ~Structural(k) /\ WasBelow(k)
          /\ ImportanceLess(trail.before, r, k)
          /\ k.id < r.id

\* C18: after prune has removed a node the scorer holds nothing for its id:
\* score gives 0 and last_seen gives -1.
C18_PruneCascadesToScorer ==
    JustPruned
    => \A r \in Pruned : /\ r.id \notin DOMAIN memory.scores
                         /\ r.id \notin DOMAIN memory.last_seen
                         /\ Score(memory, r.id) = 0
                         /\ LastSeen(memory, r.id) = -1

(***************************************************************************)
(* Properties of PersistenceAnalyzer.persistent_entities                   *)
(***************************************************************************)
Range(seq) == {seq[i] : i \in 1..Len(seq)}

\* the entity observations of value v ingested at least minimum_turn_age
\* turns ago
ObservedTimes(v, minimum_turn_age) ==
    Cardinality({i \in 1..Len(trail.observed) :
                    /\ trail.observed[i].obs.type = "entity"
                    /\ trail.observed[i].obs.payload = v
                    /\ memory.turn - trail.observed[i].turn >= minimum_turn_age})

\* "Einstein" ingested at turns 1 and 3, "Bohr" at turn 2, and turn 4 reached
EinsteinTwiceBohrOnce ==
    /\ memory.turn >= 4
    /\ trail.observed =
          <<[obs |-> Observation("user", "entity", ValuePayload(EStr(2))), turn |-> 1],
            [obs |-> Observation("user", "entity", ValuePayload(EStr(1))), turn |-> 2],
            [obs |-> Observation("user", "entity", ValuePayload(EStr(2))), turn |-> 3]>>

\* C19: in a memory filled by ingestion, persistent_entities(threshold), with
\* minimum_turn_age at its default 1, returns exactly the entity values
\* observed at least threshold times among the observations at least one turn
\* old: "Einstein" observed at turns 1 and 3 and "Bohr" at turn 2 give
\* ["Einstein"] for threshold 2 from turn 4 on.
C19_PersistentEntitiesCountObservations ==
    /\ \A threshold \in 1..2 :
          \A o \in EntityObservations :
              o.payload \in Range(PersistentEntities(memory, threshold, 1))
              <=> ObservedTimes(o.payload, 1) >= threshold
    /\ EinsteinTwiceBohrOnce
          => PersistentEntities(memory, 2, 1) = <<ValuePayload(EStr(2))>>

\* the entity nodes of value v that persistent_entities counts
CountedNodes(v, minimum_turn_age) ==
    Cardinality({n \in memory.nodes : /\ n.type = "entity"
                                      /\ n.value = v
                                      /\ memory.turn - n.turn_created >= minimum_turn_age})

\* C20: persistent_entities depends on the nodes of the graph only, not on the
\* order they were inserted in: every reordering of the nodes gives the same
\* list, and the list is in descending order of occurrence count, values of
\* equal count in ascending order.
C20_PersistentEntitiesDeterministic ==
    \A threshold \in 1..2, age \in 0..1 :
        LET nodes == NodesInOrder(memory.nodes)
            n == Len(nodes)
            out == PersistentEntitiesOf(nodes, memory.turn, threshold, age)
        IN /\ \A p \in Permutations(1..n) :
                 PersistentEntitiesOf([i \in 1..n |-> nodes[p[i]]],
                                      memory.turn, threshold, age) = out
           /\ \A i \in 1..Len(out) : \A j \in 1..Len(out) :
                 i < j => \/ CountedNodes(out[i], age) > CountedNodes(out[j], age)
                          \/ /\ CountedNodes(out[i], age) = CountedNodes(out[j], age)
                             /\ out[i].v.n < out[j].v.n
           /\ \A i \in 1..Len(out) : CountedNodes(out[i], age) >= threshold

C20_Witness ==
    LET nodes == NodesInOrder(memory.nodes)
    IN /\ Len(nodes) = 3
       /\ nodes[1].value = ValuePayload(EStr(1))
       /\ nodes[2].value = ValuePayload(EStr(2))
       /\ nodes[3].value = ValuePayload(EStr(2))
       /\ PersistentEntities(memory, 1, 1)
             = <<ValuePayload(EStr(2)), ValuePayload(EStr(1))>>
       /\ PersistentEntities(memory, 2, 1) = <<ValuePayload(EStr(2))>>

(***************************************************************************)
(* Properties of ToolRegistry.register_or_update                           *)
(***************************************************************************)
JustRegisteredOrUpdated == trail.op = "register_or_update"

\* the two contracts are the same: every field equal, the schemas equal as
\* dicts (same keys, same type for each key)
SameContract(a, b) ==
    /\ \A f \in DOMAIN a \ {"input_schema", "output_schema"} : a[f] = b[f]
    /\ {a.input_schema[i] : i \in 1..Len(a.input_schema)}
         = {b.input_schema[i] : i \in 1..Len(b.input_schema)}
    /\ {a.output_schema[i] : i \in 1..Len(a.output_schema)}
         = {b.output_schema[i] : i \in 1..Len(b.output_schema)}

\* C21: register_or_update returns "registered" exactly when the name was
\* absent; given a contract the same as the one registered under the name it
\* returns "unchanged" and leaves the registry as it was, on every call; it
\* returns "updated" only for a contract that differs, which then replaces
\* the registered one.
C21_RegisterOrUpdateIdempotent ==
    JustRegisteredOrUpdated
    => LET absent == trail.tool.name \notin ToolNamesOf(trail.before)
           existing == RegistryGet(trail.before, trail.tool.name)
       IN /\ trail.returned \in {"registered", "updated", "unchanged"}
          /\ trail.returned = "registered" <=> absent
          /\ (~absent /\ SameContract(existing, trail.tool))
                => trail.returned = "unchanged" /\ tools = trail.before
          /\ trail.returned = "updated"
                => /\ ~SameContract(existing, trail.tool)
                   /\ tools = (trail.before \ {existing}) \cup {trail.tool}
          /\ trail.returned = "registered" => tools = trail.before \cup {trail.tool}
          /\ Cardinality(ToolNamesOf(tools)) = Cardinality(tools)

C21_Witness ==
    /\ JustRegisteredOrUpdated
    /\ trail.returned = "unchanged"
    /\ trail.tool = EchoReordered
    /\ trail.tool \notin trail.before
    /\ tools = trail.before

(***************************************************************************)
(* Properties of the validators                                            *)
(***************************************************************************)
JustValidated == trail.op \in {"validate_arguments", "validate_output"}

\* the fields declared int that were given True or False
BoolForInt(schema, value) ==
    {i \in 1..Len(schema) :
        /\ schema[i].spec.base = "int"
        /\ value.items[schema[i].key].ty = "bool"}

\* C22: neither validator accepts a boolean for a field declared int: a
\* validation of a value holding True or False in an int field raises.
C22_BoolNeverSatisfiesInt ==
    (JustValidated /\ BoolForInt(trail.schema, trail.value) # {})
        => trail.raised # NoExc

(***************************************************************************)
(* Properties of ToolReliability.score                                     *)
(***************************************************************************)
OneSuccess == [success |-> 100, fail |-> 0]

\* a lies between b and c, ends included
RatBetween(a, b, c) ==
    \/ ~RatLess(a, b) /\ ~RatLess(c, a)
    \/ ~RatLess(a, c) /\ ~RatLess(b, a)

\* C23: a tool never recorded scores exactly 0.5; a tool with one recorded
\* outcome, a success, scores 0.5 + 0.5 * 1/5, strictly between 0.5 and 1.0;
\* with fewer than 5 samples the score is 0.5 plus the distance of the raw
\* ratio from 0.5 scaled by samples / 5, which lies between 0.5 and the raw
\* ratio; from 5 samples on it is the raw ratio.
C23_ScoreShrunkTowardNeutral ==
    \A t \in CallNames :
        LET score == ReliabilityScore(reliability, t)
        IN IF t \notin DOMAIN reliability
           THEN RatEq(score, Rat(5, 10))
           ELSE LET s == reliability[t]
                    total == s.success + s.fail
                    ratio == Rat(s.success, total)
                IN /\ total > 0
                   /\ s = OneSuccess
                        => /\ RatEq(score, Rat(6, 10))
                           /\ RatLess(Rat(5, 10), score)
                           /\ RatLess(score, Rat(1, 1))
                   /\ total < 500
                        => /\ RatEq(score, Rat(500 + s.success - s.fail, 1000))
                           /\ RatBetween(score, Rat(5, 10), ratio)
                   /\ total >= 500 => RatEq(score, ratio)

C23_Witness ==
    /\ "echo" \in DOMAIN reliability
    /\ reliability["echo"] = OneSuccess
    /\ "reason" \notin DOMAIN reliability

(***************************************************************************)
(* Properties of the ToolResult execute returns                            *)
(***************************************************************************)
\* C24: a ToolResult returned by execute is consistent: a success carries the
\* connector's output, which satisfies the tool's output schema, and no
\* error; a failure or a blocked result carries no output, an error, and a
\* stability signal of 0; the stability signal lies in [0, 1] (0..10 tenths).
C24_ToolResultConsistent ==
    (Returned /\ raised = NoExc)
    => /\ result.status \in Statuses
       /\ result.stability_signal \in 0..10
       /\ result.status = "success"
            => /\ RawOutput
               /\ result.output = ex.last.out.value
               /\ OutValidate(ex.tool.output_schema, result.output) = NoExc
               /\ result.error = NoError
       /\ result.status \in {"failure", "blocked"}
            => /\ result.output = PyNone
               /\ result.error # NoError
               /\ result.stability_signal = 0

\* C24 witness: a failure returned after the connector was invoked
C24_Witness ==
    /\ Returned
    /\ result.status = "failure"
    /\ Len(log) > 0
    /\ result.error # NoError
    /\ result.stability_signal = 0

(***************************************************************************)
(* Properties of the arguments the connectors receive                      *)
(***************************************************************************)
\* the arguments execute was called with passed argument validation
ArgumentsValidated ==
    /\ ex.tool # NoTool
    /\ ArgValidate(ex.tool.input_schema, ex.args0) = NoExc

\* C25: every connector invocation of one execute call, on the first attempt
\* and on every retry, with or without an execution_model, receives the
\* arguments that passed argument validation.
C25_InvocationsReceiveValidatedArguments ==
    \A i \in 1..Len(log) :
        ArgumentsValidated /\ log[i].args = ex.args0

(***************************************************************************)
(* Properties of the steps a turn executes                                 *)
(***************************************************************************)
\* C26: in a turn only the first step of the plan reaches the executor: the
\* executor is called at most once, and every executed step is step 1.
C26_OnlyFirstStepExecuted ==
    /\ ag.executor_calls <= 1
    /\ \A i \in 1..Len(ag.executed) : ag.executed[i].step = 1

\* the "result" observations ingested so far in the turn
ResultsIngested ==
    SelectSeq(ag.ingested, LAMBDA o : o.source = "tool" /\ o.type = "result")

\* C27: once the executor has returned for a step, AgentState holds that
\* step's ToolCall as last_tool_call and the ToolResult as last_result, the
\* reliability tracker holds one more outcome for the tool (a success iff the
\* status is "success"), and one "result" observation carrying the ToolResult
\* has been ingested for each executed step.
C27_ExecutionRecorded ==
    Len(ag.executed) >= 1
    => LET last == ag.executed[Len(ag.executed)]
       IN /\ state.last_tool_call = ag.plan.steps[last.step].action
          /\ state.last_result = last.result
          /\ last.tool_name \in DOMAIN reliability
          /\ Len(ag.executed) = 1
               => reliability[last.tool_name] =
                    (IF last.result.status = "success"
                     THEN [success |-> 100, fail |-> 0]
                     ELSE [success |-> 0, fail |-> 100])
          /\ Len(ResultsIngested) = Len(ag.executed)
          /\ ResultsIngested[Len(ResultsIngested)].payload = ResultPayload(last.result)

(***************************************************************************)
(* Properties of the semantic encoding                                     *)
(***************************************************************************)
SemanticIngested ==
    \E i \in 1..Len(ag.ingested) : ag.ingested[i].source = "inference"

\* the turn's final result is a successful "reason" result with an answer
FinalIsReasonAnswer ==
    /\ Len(ag.executed) >= 1
    /\ LET last == ag.executed[Len(ag.executed)].result
       IN /\ last.tool_name = "reason"
          /\ last.status = "success"
          /\ last.output.ty = "dict"
          /\ "answer" \in DOMAIN last.output.items

\* C28: when a turn is over, semantic observations (concept, fact, relation)
\* have been ingested in it if and only if its final result is a successful
\* "reason" result carrying an answer.
C28_SemanticIffReasonSuccess ==
    TurnDone => (SemanticIngested <=> FinalIsReasonAnswer)

(***************************************************************************)
(* Properties of MemoryUpdater.update_from_observation                     *)
(***************************************************************************)
\* how many of the observations ingested so far carry this (type, payload)
IngestedTimes(type, value) ==
    Cardinality({i \in 1..Len(trail.observed) :
                    /\ trail.observed[i].obs.type = type
                    /\ trail.observed[i].obs.payload = value})

\* C29: in a memory filled by ingestions, each ingestion has raised the
\* count of exactly one node by one, the node of the observation's
\* (type, payload), created when there was none: every ingested observation
\* has its node, a node's count is the number of ingestions of its
\* (type, value), nothing else is counted, and no two nodes share a
\* (type, value).
C29_OneNodePerTypeAndValue ==
    /\ \A a, b \in memory.nodes :
          (a.type = b.type /\ a.value = b.value) => a = b
    /\ \A i \in 1..Len(trail.observed) :
          \E n \in memory.nodes :
             /\ n.type = trail.observed[i].obs.type
             /\ n.value = trail.observed[i].obs.payload
    /\ \A n \in memory.nodes :
          Score(memory, n.id) = IngestedTimes(n.type, n.value)
    /\ DOMAIN memory.scores = {n.id : n \in memory.nodes}

\* C29 witness: three ingestions, one of them of a (type, value) seen before
C29_Witness ==
    /\ Len(trail.observed) = 3
    /\ Cardinality(memory.nodes) = 2
    /\ \E n \in memory.nodes : Score(memory, n.id) = 2
    /\ \E a, b \in memory.nodes : a.type # b.type /\ a.value = b.value

\* the graph turns at which this (type, value) was ingested
IngestedAt(type, value) ==
    {trail.observed[i].turn : i \in {j \in 1..Len(trail.observed) :
        /\ trail.observed[j].obs.type = type
        /\ trail.observed[j].obs.payload = value}}

\* C30: an ingestion at graph turn t stamps the scorer's last_seen of the
\* node it creates or reinforces with t, so that the age compute_importance
\* uses is the number of turns since the node's most recent ingestion.
C30_LastSeenStamped ==
    \A n \in memory.nodes :
        IngestedAt(n.type, n.value) # {}
        => LET t == CHOOSE x \in IngestedAt(n.type, n.value) :
                       \A y \in IngestedAt(n.type, n.value) : y <= x
           IN /\ LastSeen(memory, n.id) = t
              /\ Age(memory, n) = memory.turn - t

(***************************************************************************)
(* Properties of a long Agent session                                      *)
(***************************************************************************)
\* a turn of the Agent has begun (and may be over)
InTurn == state.turn_count >= 1

\* C31: across the turns of an Agent session the forgetting cycle is due
\* only on every PRUNE_INTERVAL-th turn: during a turn whose number is not a
\* multiple of PRUNE_INTERVAL, update_from_observation does not prune.
C31_PruneOnlyEveryInterval ==
    (InTurn /\ state.turn_count % PRUNE_INTERVAL # 0) => ~PruneDue(memory)

\* the node of the first query, which no later turn observes again
FirstQueryNodes ==
    {n \in memory.nodes : n.type = "entity" /\ n.value = ValuePayload(EStr(1))}

\* the turns that have begun since the first query was last observed
TurnsUnobserved == state.turn_count - 1

\* the node's importance, with its age counted in the turns since it was
\* last observed, was already below the forgetting threshold a full
\* PRUNE_INTERVAL ago: a forgetting cycle has come and gone since
Overdue(n) ==
    /\ TurnsUnobserved >= PRUNE_INTERVAL
    /\ ImportanceBelow([memory EXCEPT !.turn = TurnsUnobserved - PRUNE_INTERVAL],
                       n, PRUNE_THRESHOLD)

\* C32: in a long session an unprotected node that is not observed again is
\* removed by forgetting: once the turns since its last observation have
\* carried its importance below the threshold and a forgetting cycle has
\* passed, it is no longer in the graph.
C32_UnobservedNodeForgotten ==
    \A n \in FirstQueryNodes :
        n.type \notin PROTECTED_TYPES => ~Overdue(n)

NodeIds(mem) == {n.id : n \in mem.nodes}

\* C33: after a removal, whatever add_node, add_edge and remove_nodes calls
\* came before it, every edge of the graph has its source and its target in
\* the node mapping.
C33_EdgesJoinPresentNodes ==
    JustRemoved
    => \A i \in 1..Len(memory.edges) :
          /\ memory.edges[i].source \in NodeIds(memory)
          /\ memory.edges[i].target \in NodeIds(memory)

(***************************************************************************)
(* Properties of PersistenceScorer.load                                    *)
(***************************************************************************)
JustLoaded == trail.op = "scorer_load"

\* the data has the shape load asks for: a dict of two dicts
WellShaped(data) ==
    data.ty = "dict" /\ data.scores.ty = "dict" /\ data.last_seen.ty = "dict"

\* a well-formed entry: a string key and a non-negative integer value (True
\* and False are integers to Python)
WellFormed(k, v) == k.ty = "str" /\ v.ty \in {"int", "bool"} /\ v.n >= 0

\* what a restore made of the entries of one dict: well-formed entries are
\* held with their value, the ids of the others are as they were before
Restored(before, after, entries) ==
    /\ \A k \in DOMAIN entries :
          WellFormed(k, entries[k])
          => k.n \in DOMAIN after /\ after[k.n] = entries[k].n
    /\ \A i \in DOMAIN before :
          (\A k \in DOMAIN entries : WellFormed(k, entries[k]) => k.n # i)
          => i \in DOMAIN after /\ after[i] = before[i]
    /\ \A i \in DOMAIN after :
          \/ i \in DOMAIN before
          \/ \E k \in DOMAIN entries : WellFormed(k, entries[k]) /\ k.n = i

\* C34: load of well-shaped data raises nothing, whatever its entries: an
\* entry whose key is not a string or whose value is not a non-negative
\* integer is dropped, every other entry is loaded with its value.
C34_LoadDropsMalformedEntries ==
    (JustLoaded /\ WellShaped(trail.data))
    => /\ trail.raised = NoExc
       /\ Restored(trail.before.scores, memory.scores, trail.data.scores.entries)
       /\ Restored(trail.before.last_seen, memory.last_seen,
                   trail.data.last_seen.entries)

\* C34 witness: a restore that dropped an entry with a negative value and one
\* with a key that is no string, and loaded a third
C34_Witness ==
    /\ JustLoaded
    /\ trail.raised = NoExc
    /\ LET entries == trail.data.scores.entries
       IN /\ DOMAIN entries = EntryKeys
          /\ entries[EStr(1)] = EInt(0 - 1)
          /\ entries[EStr(2)] = EInt(2)
          /\ entries[EInt(3)] = EInt(2)
    /\ Score(trail.before, 1) = 1
    /\ Score(memory, 1) = 1
    /\ Score(memory, 2) = 2
    /\ 3 \notin DOMAIN memory.scores

(***************************************************************************)
(* Properties of AgentState.record_execution                               *)
(***************************************************************************)
Recorded == IF trail.op = "record_execution" THEN trail.recorded ELSE <<>>

\* C35: after any number k of record_execution calls recent_results holds at
\* most max_recent (5) results: the last min(k, 5) recorded, in the order
\* they were recorded, the oldest having been evicted first; last_result is
\* the newest.
C35_RecentResultsRing ==
    LET k == Len(Recorded)
        kept == IF k < 5 THEN k ELSE 5
    IN /\ Len(state.recent_results) <= 5
       /\ Len(state.recent_results) = kept
       /\ \A i \in 1..kept : state.recent_results[i] = Recorded[k - kept + i]
       /\ k >= 1 => state.last_result = Recorded[k]

\* C35 witness: seven results recorded, the two oldest evicted, and the
\* oldest differs from the oldest kept
C35_Witness ==
    /\ Len(Recorded) = 7
    /\ Len(state.recent_results) = 5
    /\ Recorded[1] # Recorded[3]
    /\ state.recent_results[1] = Recorded[3]
    /\ state.recent_results[5] = Recorded[7]
    /\ Recorded[7] # Recorded[5]

(***************************************************************************)
(* Properties of the plan loop                                             *)
(***************************************************************************)
LastExecuted == ag.executed[Len(ag.executed)]

ExecuteEntered ==
    /\ ex.pc = "idle"
    /\ UNCHANGED <<tools, connectors>>
    /\ <<ex, result, raised, log>>' # <<ex, result, raised, log>>

\* this step invokes connector name
Invokes(name) ==
    /\ Len(log') = Len(log) + 1
    /\ log'[Len(log')].conn = name

\* C39: an execute entered for a registered tool whose connector is
\* registered and inactive returns "blocked" at once, no connector invoked;
\* entered while the connector is active (after a deploy, too) it is not
\* blocked, with valid arguments it enters the attempt loop holding that
\* connector, and the attempt of a tool without execution_model invokes it;
\* no step takes a connector out of the manager.
C39_UndeployedConnectorBlocks ==
    [][/\ DOMAIN connectors \subseteq DOMAIN connectors'
       /\ (ExecuteEntered /\ ex'.tool # NoTool) =>
             LET c == ex'.tool.connector_name
             IN /\ (c \in DOMAIN connectors /\ connectors[c] = "inactive") =>
                      /\ result'.status = "blocked"
                      /\ result'.error = InactiveError(c)
                      /\ ex'.pc = "idle"
                      /\ raised' = NoExc
                      /\ log' = <<>>
                /\ (c \in DOMAIN connectors /\ connectors[c] = "active") =>
                      /\ result'.status # "blocked"
                      /\ ArgValidate(ex'.tool.input_schema, ex'.args0) = NoExc =>
                            ex'.pc = "attempt" /\ ex'.connector = c
       /\ (ex.pc = "attempt" /\ ex.tool.execution_model = ""
              /\ <<ex, result, raised, log>>' # <<ex, result, raised, log>>) =>
             Invokes(ex.connector)
       /\ (Len(log') > Len(log)) => ex.pc # "idle"
      ]_vars

\* C39 witness: an execute was blocked while "local" was undeployed, "local"
\* was deployed again, and an execute entered since has invoked it and
\* succeeded
C39_Witness ==
    /\ trail.op = "deploy"
    /\ "local" \in trail.redeployed
    /\ connectors["local"] = "active"
    /\ ex.tool.connector_name = "local"
    /\ Len(log) >= 1
    /\ log[Len(log)].conn = "local"
    /\ result.status = "success"

(***************************************************************************)
(* Properties of concurrent callers                                        *)
(***************************************************************************)
\* the registry, the manager and the value returned after one call made alone
Alone(reg, conns, op) ==
    CASE op.kind = "register" ->
            IF op.key \in ToolNamesOf(reg)
            THEN [tools |-> reg, connectors |-> conns, ret |-> Ret("ValueError", {})]
            ELSE [tools |-> reg \cup {op.tool}, connectors |-> conns,
                  ret |-> Ret("None", {})]
      [] op.kind = "register_or_update" ->
            [tools |-> RegisterOrUpdate(reg, op.tool), connectors |-> conns,
             ret |-> Ret(RegisterOrUpdateStatus(reg, op.tool), {})]
      [] op.kind = "get" ->
            [tools |-> reg, connectors |-> conns,
             ret |-> IF RegistryGetExc(reg, op.key) = NoExc
                     THEN Ret("tool", {RegistryGet(reg, op.key)})
                     ELSE Ret("KeyError", {})]
      [] op.kind = "list_tools" ->
            [tools |-> reg, connectors |-> conns, ret |-> Ret("list", reg)]
      [] op.kind = "connector_register" ->
            IF op.key \in DOMAIN conns
            THEN [tools |-> reg, connectors |-> conns, ret |-> Ret("ValueError", {})]
            ELSE [tools |-> reg,
                  connectors |-> [n \in DOMAIN conns \cup {op.key} |->
                                    IF n = op.key THEN "active" ELSE conns[n]],
                  ret |-> Ret("None", {})]
      [] op.kind = "connector_get" ->
            [tools |-> reg, connectors |-> conns,
             ret |-> IF ConnectorGetExc(conns, op.key) = NoExc
                     THEN Ret("connector", {})
                     ELSE Ret(ConnectorGetExc(conns, op.key).cls, {})]

\* the calls of the threads made one at a time in the given order, from an
\* empty registry and manager, return what the threads returned and leave
\* the registry reg and the manager conns
RECURSIVE OneAtATime(_, _, _, _)
OneAtATime(order, i, reg, conns) ==
    IF i > Len(order)
    THEN reg = tools /\ conns = connectors
    ELSE LET after == Alone(reg, conns, trail.th[order[i]].op)
         IN /\ after.ret = trail.th[order[i]].ret
            /\ OneAtATime(order, i + 1, after.tools, after.connectors)

ThreadOrders ==
    {o \in [1..MaxThreads -> Threads] : \A i, j \in 1..MaxThreads : o[i] = o[j] => i = j}

Succeeded(t, kind) ==
    /\ trail.th[t].pc = "done"
    /\ trail.th[t].op.kind = kind
    /\ trail.th[t].ret.status \in {"None", "registered", "updated"}

\* C36: whatever the interleaving, once every thread has returned the values
\* returned and the registry and manager left are those of the same calls
\* made one at a time in some order; two strict register calls for one name
\* never both succeed, on the registry and on the manager; the name of a
\* successful registration is in the registry, its connector in the manager
\* and active.
C36_CallsAsIfOneAtATime ==
    /\ (\A t \in Threads : trail.th[t].pc = "done") =>
          \E o \in ThreadOrders : OneAtATime(o, 1, {}, [n \in {} |-> "active"])
    /\ \A t, u \in Threads :
          (/\ t # u
           /\ trail.th[t].op.key = trail.th[u].op.key
           /\ \E kind \in {"register", "connector_register"} :
                 Succeeded(t, kind) /\ Succeeded(u, kind)) => FALSE
    /\ \A t \in Threads :
          /\ (Succeeded(t, "register") \/ Succeeded(t, "register_or_update")) =>
                trail.th[t].op.key \in ToolNamesOf(tools)
          /\ Succeeded(t, "connector_register") =>
                /\ trail.th[t].op.key \in DOMAIN connectors
                /\ connectors[trail.th[t].op.key] = "active"
    /\ \A a, b \in tools : a.name = b.name => a = b

\* C36 witness: two threads have called the strict register with contracts
\* of the same name, a third a register of another name; all have returned,
\* one of the two raised ValueError, the other name is registered
C36_Witness ==
    /\ trail.op = "threads"
    /\ \A t \in Threads : trail.th[t].pc = "done"
    /\ \E t, u, v \in Threads :
          /\ trail.th[t].op = Op("register", ExampleEcho, "echo")
          /\ trail.th[u].op = Op("register", EchoNextVersion, "echo")
          /\ trail.th[v].op = Op("register", ReasonTool, "reason")
          /\ trail.th[t].ret.status = "ValueError"
          /\ trail.th[u].ret.status = "None"
          /\ EchoNextVersion \in tools
          /\ "reason" \in ToolNamesOf(tools)


====
